---- MODULE Spec2Model ----
(***************************************************************************)
(* Model of the check execution engine of bootcs-cli                       *)
(* (src/bootcs/check/runner.py): the registry built by                     *)
(* CheckRunner.__enter__, the scheduler CheckRunner.run with its process   *)
(* pool, and the per-check worker boundary check.decorator.wrapper.        *)
(*                                                                         *)
(* Checks are named 1..MaxChecks in the order they are declared, so        *)
(* check_names is <<1, ..., MaxChecks>>.  A check can only name a check    *)
(* declared before it as its dependency (the decorator argument has to     *)
(* exist when the decorator runs).                                         *)
(*                                                                         *)
(* Specifications:                                                         *)
(*   Spec        the scheduler and its pool                                *)
(*   CrashSpec   Spec with pool processes that can die                     *)
(*   WorkerSpec  the calls one pool process makes one after the other:     *)
(*               the register of hooks (src/bootcs/check/internal.py),     *)
(*               the log and data buffers, the log cap                     *)
(*   LoadSpec    CheckRunner.__enter__ over checks definitions that need   *)
(*               not be well formed, and a run over the result             *)
(*   DirSpec     the directories the wrappers copy and work in             *)
(*   ScopeSpec   the check command: the working area, the runner scope,    *)
(*               the exit status (src/bootcs/__main__.py)                  *)
(*   PoolSpec    two runs over the same checks in one pool process         *)
(*   RegexSpec   check.regex.decimal and a search with its pattern         *)
(*   HarnessSpec the expect-output loop of the interaction harness         *)
(*   CredSpec    the credentials store (src/bootcs/auth/credentials.py)    *)
(*   CacheSpec   the checks cache (src/bootcs/api/checks.py)               *)
(*   TreeSpec    the directories of the checks cache and clear_cache       *)
(*   PollSpec    the login poll (src/bootcs/auth/device_flow.py)           *)
(*   WaitSpec    the submission poll wait_for_result                       *)
(*   SlugSpec    parse_slug                                                *)
(*   FilesSpec   lib50.files (src/bootcs/lib50/_api.py)                    *)
(***************************************************************************)
EXTENDS Integers, Sequences, FiniteSets, TLC

\* ---------------------------------------------------------------- bounds
\* Number of checks in the checks definition.
MaxChecks == 3
\* Largest value of the CHECK50_WORKERS knob that is tried.
MaxWorkers == 1
\* os.cpu_count(): the pool size when the knob is unset or unparsable.
CpuCount == 2
\* Seconds of a timeout shorter than the default.
ShortTimeout == 1
\* Number of paths in the included files of a run.
MaxFiles == 2
\* Largest absolute value of a number a pattern is built for.
MaxNumber == 12
\* Largest number of characters of a searched output.
MaxText == 4
\* Largest number of characters a spawned process writes.
MaxOutput == 3
\* Largest number of calls made on the credentials store.
MaxStoreCalls == 4
\* Largest timeout, in seconds, a polling loop is called with.
MaxPollTimeout == 12
\* Largest polling interval, in seconds, poll_for_token is called with.
MaxInterval == 2
\* Largest number of seconds one request takes.
MaxRequestSeconds == 1
\* Largest number of characters of a slug.
MaxSlug == 4
\* Largest number of patterns lib50.files is given.
MaxPatterns == 2

\* ------------------------------------------------------- program constants
\* CACHE_TTL, the age in seconds at which a cached stage is stale.
CACHE_TTL == 86400

\* The "no dependency" key of the dependency graph (Python's None).
None == 0
\* check(dependency=None, timeout=60, max_log_lines=100)
DefaultTimeout == 60

Names == 1..MaxChecks

\* The timeout each check is declared with: the first check of the
\* definition is a short one, the others keep the default.
timeout_of(c) == IF c = 1 THEN ShortTimeout ELSE DefaultTimeout

\* Values of the CHECK50_WORKERS environment variable: unset, not a number,
\* or a positive number.
EnvValues ==
    {<<"unset", 0>>, <<"text", 0>>} \cup {<<"digits", k>> : k \in 1..MaxWorkers}

VARIABLES
    dependency,   \* check name -> name of its declared dependency, or None
    pc,           \* position of CheckRunner.run
    targets,      \* the targets argument of run (a set; {} for None / [])
    environ,      \* the value of CHECK50_WORKERS that run read
    results,      \* the results dict, in insertion order: <<name, result>>
    not_done,     \* names of the futures run is still waiting for
    not_passed,   \* the not_passed list of run
    future,       \* name -> state of the future submitted for it
    job,          \* name -> the state argument its run_check was built with
    running,      \* name -> what its executing wrapper holds
    outcome,      \* name -> what the finished future carries
    returned,     \* the list run returned
    ended_with    \* name -> how the try block of its wrapper ended (history)

\* The variables of the scheduler (CheckRunner.run and its pool).
schedVars == <<dependency, pc, targets, environ, results, not_done,
               not_passed, future, job, running, outcome, returned, ended_with>>

VARIABLES
    register,       \* internal.register of one pool process: its three lists
    check_running,  \* internal.check_running of that process
    _log,           \* the list _log of that process
    _data,          \* the dict _data of that process, in insertion order
    call,           \* the run_check.__call__ the process is in, or was in last
    events,         \* hooks and function run in that call, in order (history)
    sent,           \* the result the last finished call handed to the pool
    calls           \* how many jobs the process has taken so far

\* The variables of one pool process.
procVars == <<register, check_running, _log, _data, call, events, sent, calls>>

VARIABLES
    definition,     \* the checks definition: its declarations in source order
    registry,       \* what CheckRunner.__enter__ built from the definition
    ran             \* how a run over that registry ended

\* The variables of the loading of a checks definition.
loadVars == <<definition, registry, ran>>

VARIABLES
    run_root_dir,   \* directory under internal.run_root_dir -> its files
    run_dir         \* check -> where it is with its directory (and history)

\* The variables of the directories of the checks.
dirVars == <<run_root_dir, run_dir>>

VARIABLES
    args,               \* what the caller of CheckRunner hands over and finds
    at,                 \* where the caller is with its with statement
    runner,             \* the CheckRunner object
    _current_language,  \* internal._current_language
    area,               \* the temporary directory of lib50.working_area
    cwd,                \* the working directory of the process
    exc,                \* the exception that left the with statement
    yielded,            \* the files in the area when working_area yielded it
    reported,           \* the list runner.run returned
    status              \* what run_check returned

\* The variables of the scope of a CheckRunner.
scopeVars == <<args, at, runner, _current_language, area, cwd, exc,
               yielded, reported, status>>

VARIABLES
    behaviour,  \* check name -> what its function does
    workers,    \* the number of processes of the pool of the run
    process,    \* pool process -> its job and its register.after_checks
    round,      \* the run of the definition that is under way: 1 or 2
    returned1   \* the list the first run returned

\* The variables of two runs of one definition over pools of processes.
poolVars == <<behaviour, workers, process, round, returned1>>

VARIABLES
    number,     \* the argument of regex.decimal
    text,       \* the output the pattern is searched in: its characters
    pattern,    \* what regex.decimal returned
    match       \* where re.search found the pattern (0: nowhere)

\* The variables of a search for a number.
regexVars == <<number, text, pattern, match>>

VARIABLES
    stdout,       \* what the spawned process has written so far: characters
    alive,        \* whether the spawned process is still running
    consumed,     \* how many characters of stdout the harness has consumed
    expectation,  \* the expectOutput call under way, or the last one
    failure       \* what the failure the last call raised carries

\* The variables of the interaction harness.
harnessVars == <<stdout, alive, consumed, expectation, failure>>

VARIABLES
    credentials_yaml,  \* the credentials file: whether it exists, its document
    history            \* the calls made on the credentials store, in order

\* The variables of the credentials store.
credVars == <<credentials_yaml, history>>

VARIABLES
    stage_cache,     \* the stage directories under cache_dir and their markers
    course_cache,    \* per language, the age of the .course_version marker
    asked            \* the last get_checks call and how it ended

\* The variables of the checks cache.
cacheVars == <<stage_cache, course_cache, asked>>

VARIABLES
    tree,            \* the paths that exist in cache_dir, <<>> being cache_dir
    emptied          \* the clear_cache call that just returned, if any

\* The variables of the cache directory tree.
treeVars == <<tree, emptied>>

VARIABLES
    token_poll,      \* a poll_for_token call: its clock, interval and end
    result_poll      \* a wait_for_result call: its clock, poll count and end

\* The variables of the two polling loops.
pollVars == <<token_poll, result_poll>>

VARIABLES
    slug_text,       \* the slug string a command was given
    parsed           \* what parse_slug returned for it, once it was called

\* The variables of the slug parser.
slugVars == <<slug_text, parsed>>

VARIABLES
    file_patterns,   \* the patterns argument of a lib50.files call
    selected         \* how the call ended: the two sets, or what it raised

\* The variables of the file selection.
filesVars == <<file_patterns, selected>>

\* What the actions of the scheduler, of the pool process, of the loading
\* and of the directories leave alone.
nonSchedVars == <<procVars, loadVars, dirVars, scopeVars, poolVars,
    regexVars, harnessVars, credVars, cacheVars, treeVars, pollVars,
    slugVars, filesVars>>
nonProcVars == <<schedVars, loadVars, dirVars, scopeVars, poolVars,
    regexVars, harnessVars, credVars, cacheVars, treeVars, pollVars,
    slugVars, filesVars>>
nonLoadVars == <<schedVars, procVars, dirVars, scopeVars, poolVars,
    regexVars, harnessVars, credVars, cacheVars, treeVars, pollVars,
    slugVars, filesVars>>
nonDirVars == <<pc, targets, environ, results, not_done, not_passed, future,
                job, running, outcome, returned, ended_with, procVars,
                loadVars, scopeVars, poolVars, regexVars, harnessVars,
    credVars, cacheVars, treeVars, pollVars, slugVars, filesVars>>

nonScopeVars == <<schedVars, procVars, loadVars, dirVars, poolVars,
    regexVars, harnessVars, credVars, cacheVars, treeVars, pollVars,
    slugVars, filesVars>>
nonPoolVars == <<targets, environ, not_done, job, running, outcome, ended_with,
                 procVars, loadVars, dirVars, scopeVars, regexVars,
    harnessVars, credVars, cacheVars, treeVars, pollVars, slugVars,
    filesVars>>
nonRegexVars == <<schedVars, procVars, loadVars, dirVars, scopeVars, poolVars,
    harnessVars, credVars, cacheVars, treeVars, pollVars, slugVars,
    filesVars>>
nonHarnessVars == <<schedVars, procVars, loadVars, dirVars, scopeVars, poolVars,
                   regexVars, credVars, cacheVars, treeVars,
    pollVars, slugVars, filesVars>>
nonCredVars == <<schedVars, procVars, loadVars, dirVars, scopeVars, poolVars,
                regexVars, harnessVars, cacheVars, treeVars,
    pollVars, slugVars, filesVars>>
nonCacheVars == <<schedVars, procVars, loadVars, dirVars, scopeVars, poolVars,
                 regexVars, harnessVars, credVars, treeVars,
    pollVars, slugVars, filesVars>>
nonTreeVars == <<schedVars, procVars, loadVars, dirVars, scopeVars, poolVars,
                regexVars, harnessVars, credVars, cacheVars, pollVars,
    slugVars, filesVars>>
nonPollVars == <<schedVars, procVars, loadVars, dirVars, scopeVars, poolVars,
                regexVars, harnessVars, credVars, cacheVars, treeVars,
    slugVars, filesVars>>
nonSlugVars == <<schedVars, procVars, loadVars, dirVars, scopeVars, poolVars,
                regexVars, harnessVars, credVars, cacheVars, treeVars,
                pollVars, filesVars>>

nonFilesVars == <<schedVars, procVars, loadVars, dirVars, scopeVars, poolVars,
                 regexVars, harnessVars, credVars, cacheVars, treeVars,
                 pollVars, slugVars>>

vars == <<schedVars, procVars, loadVars, dirVars, scopeVars, poolVars,
    regexVars, harnessVars, credVars, cacheVars, treeVars, pollVars,
    slugVars, filesVars>>

\* ------------------------------------------------------------ run states
\* A Python value handed from a check to its dependents: None, ...
NoState == <<"None">>
\* ... a value the function of check c returned that pickle can serialise,
\* tagged with the check so that values of different checks differ, ...
StateOf(c) == <<"value", c>>
\* ... or one pickle cannot serialise (a lambda, an open handle, ...).
Unpicklable(c) == <<"lambda", c>>
\* What the function of check c can return.
ReturnValues(c) == {StateOf(c), Unpicklable(c)}
IsPicklable(v) == v[1] # "lambda"

\* -------------------------------------------------------------- results
NoRationale == [text |-> "", arg |-> 0]
NoError == [type |-> "", value |-> ""]
NoCause == [rationale |-> NoRationale, help |-> "None", error |-> NoError]

\* A slot of the results dict that holds None.
NoResult == [name |-> None, passed |-> "None", cause |-> NoCause,
             dependency |-> None]

\* CheckResult.from_check(check): name and dependency of the check,
\* passed and cause at their defaults.
from_check(c) ==
    [name |-> c, passed |-> "None", cause |-> NoCause,
     dependency |-> dependency[c]]

\* str.format of a one-placeholder template.
Format(template, arg) == [text |-> template, arg |-> arg]

\* Failure(rationale, help).payload
Failure(rationale, help) ==
    [rationale |-> rationale, help |-> help, error |-> NoError]

\* Timeout whose rationale was never formatted with the seconds.
TimeoutUnformatted(seconds) ==
    Failure(Format("check timed out after {} seconds", 0), "None")

\* Timeout(seconds): a Failure whose rationale states the seconds.
Timeout(seconds) ==
    Failure(Format("check timed out after {} seconds", seconds), "None")

\* ------------------------------------------------- dicts in insertion order
HasKey(d, k) == \E i \in 1..Len(d) : d[i][1] = k
DictGet(d, k) == d[CHOOSE i \in 1..Len(d) : d[i][1] = k][2]
\* DictSet that moves a rewritten key to the end (pop, then insert).
DictSetMoveToEnd(d, k, v) ==
    Append(SelectSeq(d, LAMBDA p : p[1] # k), <<k, v>>)

\* d[k] = v: an existing key keeps its position, a new key goes last.
DictSet(d, k, v) ==
    IF HasKey(d, k)
    THEN [i \in 1..Len(d) |-> IF d[i][1] = k THEN <<k, v>> ELSE d[i]]
    ELSE Append(d, <<k, v>>)
DictValues(d) == [i \in 1..Len(d) |-> d[i][2]]

\* ------------------------------------------------------------- registry
\* _check_names after the definition was loaded: declaration order.
check_names == [i \in 1..MaxChecks |-> i]

\* CheckRunner.__enter__: dependency -> set of the checks that declare it.
dependency_graph ==
    [k \in {None} \cup Names |-> {c \in Names : dependency[c] = k}]

\* CheckRunner._create_inverse_dependency_graph: check -> its dependency.
inverse_dependency_graph ==
    [c \in UNION {dependency_graph[k] : k \in DOMAIN dependency_graph} |->
        CHOOSE k \in DOMAIN dependency_graph : c \in dependency_graph[k]]

RECURSIVE ChainOf(_)
\* The walk of dependencies_of from one target up to the root.
ChainOf(c) ==
    IF c = None THEN {} ELSE {c} \cup ChainOf(inverse_dependency_graph[c])

\* CheckRunner.dependencies_of
dependencies_of(ts) == UNION {ChainOf(t) : t \in ts}

\* build_subgraph without the filter on the children: the whole graph.
build_subgraph_unfiltered(ts) == dependency_graph

\* CheckRunner.build_subgraph
build_subgraph(ts) ==
    LET checks == dependencies_of(ts)
    IN  [k \in {None} \cup Names |->
            IF k # None /\ k \notin checks
            THEN {}
            ELSE {child \in dependency_graph[k] : child \in checks}]

\* graph_for that also lists every check of the graph under None.
graph_for_all_roots(ts) ==
    LET g == IF ts # {} THEN build_subgraph(ts) ELSE dependency_graph
    IN  [k \in {None} \cup Names |->
            IF k = None THEN UNION {g[j] : j \in DOMAIN g} ELSE g[k]]

\* graph = self.build_subgraph(targets) if targets else self.dependency_graph
graph_for(ts) == IF ts # {} THEN build_subgraph(ts) ELSE dependency_graph

\* The local variable graph of run.
graph == graph_for(targets)

\* ------------------------------------------------------------ the worker
\* What the try block of the wrapper ended with: the check function
\* returned a value, or something in the block raised.
Returned(v) == [raised |-> "no", state |-> v, payload |-> NoCause,
                type |-> "", value |-> ""]
RaisedFailure(payload) == [raised |-> "Failure", state |-> NoState,
                           payload |-> payload, type |-> "Failure", value |-> ""]
RaisedOther(type, value) == [raised |-> "BaseException", state |-> NoState,
                             payload |-> NoCause, type |-> type, value |-> value]

\* args = (dependency_state,) if inspect.getfullargspec(check).args else ()
wrapper_args(declares_args, dependency_state) ==
    IF declares_args THEN <<dependency_state>> ELSE <<>>

\* The except / else / finally clauses of the wrapper: (result, state).
wrapper(c, ended) ==
    LET result == from_check(c)
    IN  IF ended.raised = "Failure"
        THEN <<[result EXCEPT !.passed = "False", !.cause = ended.payload],
               NoState>>
        ELSE IF ended.raised = "BaseException"
        THEN <<[result EXCEPT
                  !.passed = "None",
                  !.cause = [rationale |->
                               Format("check50 ran into an error while running checks!", 0),
                             help |-> "None",
                             error |-> [type |-> ended.type,
                                        value |-> ended.value]]],
               NoState>>
        ELSE <<[result EXCEPT !.passed = "True"], ended.state>>

\* The pool sends the pair back to the parent by pickling it; a pair that
\* cannot be pickled becomes an exception set on the future.
SendBack(pair) ==
    IF IsPicklable(pair[2])
    THEN [exception |-> FALSE, result |-> pair[1], state |-> pair[2]]
    ELSE [exception |-> TRUE, result |-> NoResult, state |-> NoState]

NoOutcome == [exception |-> FALSE, result |-> NoResult, state |-> NoState]
NotRunning == [declares_args |-> FALSE, args |-> <<>>, seconds |-> 0]

\* ------------------------------------------------------------- scheduler
\* ParseWorkers that drops the knob: the pool always gets the default size.
ParseWorkersIgnored(env) == None

\* int(os.environ.get("CHECK50_WORKERS")): the number for a string of
\* digits, None on ValueError (not a number) and TypeError (unset).
ParseWorkers(env) == IF env[1] = "digits" THEN env[2] ELSE None

\* The local variable max_workers of run.
max_workers == ParseWorkers(environ)

\* Processes of ProcessPoolExecutor(max_workers=max_workers): os.cpu_count()
\* of them when max_workers is None.
PoolSize == IF max_workers = None THEN CpuCount ELSE max_workers

Executing == {c \in Names : future[c] = "running"}

\* A pool process runs one job at a time: a queued job starts only when
\* fewer than PoolSize are executing.
WorkerFree == Cardinality(Executing) < PoolSize

\* Submit that builds run_check(name, self.checks_spec) without the state.
SubmitWithoutState(cs, state) ==
    /\ future' = [c \in Names |-> IF c \in cs THEN "pending" ELSE future[c]]
    /\ job' = [c \in Names |-> IF c \in cs THEN NoState ELSE job[c]]

\* executor.submit(run_check(name, self.checks_spec, state)) for each name
Submit(cs, state) ==
    /\ future' = [c \in Names |-> IF c \in cs THEN "pending" ELSE future[c]]
    /\ job' = [c \in Names |-> IF c \in cs THEN state ELSE job[c]]

RECURSIVE skip_children(_, _), SkipEach(_, _, _), SkipEachShallow(_, _, _),
          SkipEachNamed(_, _, _)
\* SkipEach without the recursive call: only direct children are skipped.
SkipEachShallow(check_name, names, res) ==
    IF names = {}
    THEN res
    ELSE LET name == CHOOSE n \in names : TRUE
             skipped == [name |-> name, passed |-> "None",
                         cause |-> [rationale |->
                                      Format("can't check until a frown turns upside down", 0),
                                    help |-> "None", error |-> NoError],
                         dependency |-> check_name]
             res1 == IF DictGet(res, name) = NoResult
                     THEN DictSet(res, name, skipped)
                     ELSE res
         IN  SkipEachShallow(check_name, names \ {name}, res1)

\* SkipEach with a rationale that is formatted with check_name.
SkipEachNamed(check_name, names, res) ==
    IF names = {}
    THEN res
    ELSE LET name == CHOOSE n \in names : TRUE
             skipped == [name |-> name, passed |-> "None",
                         cause |-> [rationale |->
                                      Format("can't check until a frown turns upside down",
                                             check_name),
                                    help |-> "None", error |-> NoError],
                         dependency |-> check_name]
             res1 == IF DictGet(res, name) = NoResult
                     THEN skip_children(name, DictSet(res, name, skipped))
                     ELSE res
         IN  SkipEachNamed(check_name, names \ {name}, res1)

\* The for loop of _skip_children over self.dependency_graph[check_name].
SkipEach(check_name, names, res) ==
    IF names = {}
    THEN res
    ELSE LET name == CHOOSE n \in names : TRUE
             skipped == [name |-> name, passed |-> "None",
                         cause |-> [rationale |->
                                      Format("can't check until a frown turns upside down", 0),
                                    help |-> "None", error |-> NoError],
                         dependency |-> check_name]
             res1 == IF DictGet(res, name) = NoResult
                     THEN skip_children(name, DictSet(res, name, skipped))
                     ELSE res
         IN  SkipEach(check_name, names \ {name}, res1)

\* CheckRunner._skip_children
skip_children(check_name, res) ==
    SkipEach(check_name, dependency_graph[check_name], res)

\* SkipAll that skips the children of every declared check.
SkipAllDeclared(names, res) ==
    LET RECURSIVE every(_, _)
        every(i, r) == IF i > Len(check_names)
                       THEN r
                       ELSE every(i + 1, skip_children(check_names[i], r))
    IN  every(1, res)

RECURSIVE SkipAll(_, _)
\* for name in not_passed: self._skip_children(name, results)
SkipAll(names, res) ==
    IF names = <<>>
    THEN res
    ELSE SkipAll(Tail(names), skip_children(Head(names), res))

\* list(filter(None, results.values()))
FilterNone(values) == SelectSeq(values, LAMBDA r : r # NoResult)

\* results = {name: None for name in self.check_names}
initial_results == [i \in 1..Len(check_names) |-> <<check_names[i], NoResult>>]

\* ------------------------------------------------------ one pool process
\* Hooks and the check function as entries of the lists of the register and
\* of the history of a call: <<what, the call that registered or ran it>>.
\* The two hooks with which the check API resets its buffers before every
\* check.
ClearLog == <<"_log.clear", 0>>
ClearData == <<"_data.clear", 0>>
\* A before_every and an after_every hook the checks definition registers
\* each time it is executed.
ModuleBefore == <<"before_every", 0>>
ModuleAfter == <<"after_every", 0>>
\* The hook a check registers with register.after_check during call j.
AfterCheckHook(j) == <<"after_check", j>>
FunctionCall(j) == <<"function", j>>

\* The "..." that stands for the lines cut from a log.
TruncationMarker == <<0, 0>>

\* What the last call of a registering method of the register did: which
\* method it was and whether it raised Error.
NoRegistration == [kind |-> "none", error |-> FALSE]

NoCall == [at |-> "idle", job |-> 0, max_log_lines |-> 0, lines |-> 0,
           hooks |-> 0, ended |-> "not run",
           registration |-> NoRegistration]
NothingSent == [job |-> 0, passed |-> "None", log |-> <<>>, data |-> <<>>,
                logged |-> <<>>, max_log_lines |-> 0]

\* The register of a pool process when it takes its first job: the hooks
\* of the check API, and those the checks definition registered when
\* CheckRunner.__enter__ executed it before the pool forked.
RegisterAtFork ==
    [before_everies |-> <<ClearLog, ClearData, ModuleBefore>>,
     after_everies |-> <<ModuleAfter>>,
     after_checks |-> <<>>]

\* The pool process has not taken a job.
ProcessNotStarted ==
    /\ register = RegisterAtFork
    /\ check_running = FALSE
    /\ _log = <<>>
    /\ _data = <<>>
    /\ call = NoCall
    /\ events = <<>>
    /\ sent = NothingSent
    /\ calls = 0

\* ------------------------------------------- loading a checks definition
\* Identifiers of a checks definition: the names of the functions it
\* defines, the other module attribute a declaration can bind its check to
\* (one per declaration), and the name of a function that is not a check.
FunctionNames == 1..MaxChecks
AliasOf(k) == MaxChecks + k
Helper == 2 * MaxChecks + 1
Identifiers == 1..Helper

NotLoaded ==
    [status |-> "not loaded", check_names |-> <<>>,
     dependency_graph |-> [key \in {None} \cup Identifiers |-> {}],
     check_descriptions |-> {}]
NotRun == [status |-> "not run", targets |-> {}, names |-> <<>>]

\* The fixed definition the specifications of the scheduler and of the
\* pool process are about: nothing of it is looked at there.
NothingLoaded ==
    /\ definition = <<>>
    /\ registry = NotLoaded
    /\ ran = NotRun

\* ------------------------------------------------ the directories of a run
\* The files a directory of the run can hold: what the student handed in
\* and what a check makes of it.
Files == {"hello.c", "hello"}
\* What a directory has for a file: nothing, the file as handed in, or the
\* file as check c wrote it (c).
Absent == -1
HandedIn == 0

\* The directory "-" that lib50.working_area filled with the included
\* files.
Pristine == [f \in Files |-> IF f = "hello.c" THEN HandedIn ELSE Absent]
\* A directory that does not exist.
Missing == [f \in Files |-> Absent]

Waiting == [at |-> "waiting", copied |-> {}, start |-> Missing, left |-> Missing]

\* The run directory as CheckRunner.__enter__ leaves it: "-" (named None
\* here) and no directory of a check.
NothingMaterialized ==
    /\ run_root_dir = [d \in {None} \cup Names |->
                          IF d = None THEN Pristine ELSE Missing]
    /\ run_dir = [c \in Names |-> Waiting]

\* No exception.
NoException == [type |-> "None", files |-> {}]

\* No CheckRunner object.
NoRunner == [constructed |-> FALSE, language |-> "no attribute"]

\* No temporary directory.
NoArea == [exists |-> FALSE, copied |-> {}]

\* The caller has not constructed its CheckRunner yet.
ScopeNotEntered ==
    /\ at = "start"
    /\ runner = NoRunner
    /\ area = NoArea
    /\ cwd = "student_dir"
    /\ exc = NoException
    /\ yielded = {}
    /\ reported = <<>>
    /\ status = -1

\* No caller of CheckRunner is modelled.
NoScope ==
    /\ args = [keyword |-> FALSE, language |-> "None", can_copy |-> <<>>,
               loads |-> TRUE]
    /\ _current_language = "None"
    /\ ScopeNotEntered

\* A pool process as forked: no job, no hook left by a check.
Forked == [job |-> None, after_checks |-> <<>>]

\* No run over identified pool processes is modelled.
NoPool ==
    /\ behaviour = [c \in Names |-> [after_check |-> FALSE, fails |-> FALSE]]
    /\ workers = 1
    /\ process = [p \in 1..CpuCount |-> Forked]
    /\ round = 1
    /\ returned1 = <<>>

\* No pattern was built.
NoPattern == [lookbehind |-> FALSE, literal |-> <<>>, lookahead |-> FALSE]

\* No pattern is searched for.
NoRegex ==
    /\ number = 0
    /\ text = <<>>
    /\ pattern = NoPattern
    /\ match = -1

\* No expectOutput call was made.
NoExpectation == [at |-> "idle", literal |-> <<>>, is_regex |-> FALSE,
                  exact |-> FALSE, start |-> 0, cause |-> "None"]

\* No failure was raised.
NoFailure == [type |-> "None", expected |-> <<>>, seen |-> <<>>]

\* No process was spawned.
NoHarness ==
    /\ stdout = <<>>
    /\ alive = FALSE
    /\ consumed = 0
    /\ expectation = NoExpectation
    /\ failure = NoFailure

\* There is no credentials file.
NoCredentials ==
    /\ credentials_yaml = [exists |-> FALSE, document |-> <<>>]
    /\ history = <<>>

\* The languages a caller asks checks for, and the stages of a course.
Languages == {"c", "python"}
Stages == {"hello"}

\* slug.split("/") of the slugs a caller passes: "cs50/hello" and
\* "invalid-slug".
Slugs == {<<"cs50", "hello">>, <<"invalid-slug">>}

\* The stage directories under cache_dir, as path components: the
\* directory course/stage and the directories course/language/stage.
StagePaths ==
    {<<"cs50", stage>> : stage \in Stages}
        \cup {<<"cs50", language, stage>> :
                  language \in Languages, stage \in Stages}

\* No marker file in a directory.
NoMarker == -1

\* A directory that does not exist.
NoDirectory == [exists |-> FALSE, version |-> NoMarker]

\* No get_checks call was made.
NotAsked ==
    [made |-> FALSE, slug |-> <<>>, language |-> "None",
     force_update |-> FALSE, valid |-> FALSE, fresh |-> FALSE,
     outcome |-> "None",
     path |-> <<>>, api_calls |-> 0]

\* An empty cache directory and no call yet.
NoCache ==
    /\ stage_cache = [path \in StagePaths |-> NoDirectory]
    /\ course_cache = [language \in Languages |-> NoMarker]
    /\ asked = NotAsked

\* No clear_cache call just returned.
NotCleared ==
    [made |-> FALSE, given |-> FALSE, parts |-> <<>>, language |-> "None",
     before |-> {}, raised |-> "None"]

\* The cache directory as ChecksManager.__init__ leaves a new one:
\* existing and empty.
NoTree ==
    /\ tree = {<<>>}
    /\ emptied = NotCleared

\* Neither polling loop was called.
NoTokenPoll ==
    [at |-> "not called", timeout |-> 0, current_interval |-> 0,
     elapsed |-> 0, last |-> "None", code |-> "None"]
NoResultPoll ==
    [at |-> "not called", timeout |-> 0, elapsed |-> 0, poll_count |-> 0,
     last |-> "None", returned |-> "None"]
NoPolling ==
    /\ token_poll = NoTokenPoll
    /\ result_poll = NoResultPoll

\* parse_slug was not called.
NotParsed == [done |-> FALSE, has_course |-> FALSE, course |-> <<>>,
              stage |-> <<>>]
NoSlug ==
    /\ slug_text = <<>>
    /\ parsed = NotParsed

\* lib50.files was not called.
NotSelected == [at |-> "not called", error |-> "none", included |-> {},
                excluded |-> {}, files |-> <<>>]
NoFiles ==
    /\ file_patterns = <<>>
    /\ selected = NotSelected

\* ---------------------------------------------------------------- Init
\* The state after CheckRunner.__enter__ loaded a checks definition.
Init ==
    /\ dependency \in {d \in [Names -> {None} \cup Names] :
                          \A c \in Names : d[c] < c}
    /\ pc = "idle"
    /\ targets = {}
    /\ environ = <<"unset", 0>>
    /\ results = <<>>
    /\ not_done = {}
    /\ not_passed = <<>>
    /\ future = [c \in Names |-> "none"]
    /\ job = [c \in Names |-> NoState]
    /\ running = [c \in Names |-> NotRunning]
    /\ outcome = [c \in Names |-> NoOutcome]
    /\ returned = <<>>
    /\ ended_with = [c \in Names |-> "not run"]
    /\ ProcessNotStarted
    /\ NothingLoaded
    /\ NothingMaterialized
    /\ NoFiles
    /\ NoSlug
    /\ NoPolling
    /\ NoTree
    /\ NoCache
    /\ NoCredentials
    /\ NoHarness
    /\ NoRegex
    /\ NoPool
    /\ NoScope

\* run(targets) up to the first futures.wait: the graph, the results dict,
\* the pool and the submission of the checks without dependency.
RunStart(ts, env) ==
    /\ pc = "idle"
    /\ targets' = ts
    /\ environ' = env
    /\ results' = initial_results
    /\ not_done' = graph_for(ts)[None]
    /\ Submit(graph_for(ts)[None], NoState)
    /\ not_passed' = <<>>
    /\ pc' = "loop"
    /\ UNCHANGED <<dependency, running, outcome, returned, ended_with>>
    /\ UNCHANGED nonSchedVars

\* A pool process takes a queued job: run_check.__call__ and the wrapper
\* up to the call of the check function, with the alarm set to the
\* timeout of the check.  Whether the function declares a parameter is a
\* property of the check.
StartCheck(c, declares_args) ==
    /\ future[c] = "pending"
    /\ WorkerFree
    /\ future' = [future EXCEPT ![c] = "running"]
    /\ running' = [running EXCEPT
                     ![c] = [declares_args |-> declares_args,
                             args |-> wrapper_args(declares_args, job[c]),
                             seconds |-> timeout_of(c)]]
    /\ UNCHANGED <<dependency, pc, targets, environ, results, not_done,
                   not_passed, job, outcome, returned, ended_with>>
    /\ UNCHANGED nonSchedVars

\* The wrapper finishes with what its try block ended with, and the pool
\* sends the pair back.
FinishCheck(c, ended, how) ==
    /\ future[c] = "running"
    /\ ended_with' = [ended_with EXCEPT ![c] = how]
    /\ future' = [future EXCEPT ![c] = "finished"]
    /\ outcome' = [outcome EXCEPT ![c] = SendBack(wrapper(c, ended))]
    /\ running' = [running EXCEPT ![c] = NotRunning]
    /\ UNCHANGED <<dependency, pc, targets, environ, results, not_done,
                   not_passed, job, returned>>
    /\ UNCHANGED nonSchedVars

\* The check function returns normally.
CheckReturns(c) == \E v \in ReturnValues(c) : FinishCheck(c, Returned(v), "return")

\* The check function (or a hook, or the copy of the directory) raises
\* Failure.
CheckFails(c) ==
    FinishCheck(c, RaisedFailure(Failure(Format("expected failure", 0), "help")),
                "Failure")

\* Anything in the try block raises another exception.
CheckErrors(c) ==
    FinishCheck(c, RaisedOther("RuntimeError", "boom"), "RuntimeError")

\* SIGALRM arrives while the check function runs: _handle_timeout raises
\* Timeout(seconds).
CheckTimesOut(c) ==
    FinishCheck(c, RaisedFailure(Timeout(running[c].seconds)), "SIGALRM")

\* Truthy with "is not False" in place of truthiness: an errored check
\* (passed is None) would count as passed.
TruthyNotFalse(passed) == passed # "False"

\* if result.passed: true for True only, false for False and None.
Truthy(passed) == passed = "True"

\* One pass of "for future in done" of the loop of run.
HandleDone(c) ==
    /\ pc = "loop"
    /\ c \in not_done
    /\ future[c] = "finished"
    /\ IF outcome[c].exception
       THEN \* future.result() raises; leaving the with block shuts the
            \* pool down, which waits for the submitted jobs.
            /\ pc' = "shutdown"
            /\ not_done' = not_done \ {c}
            /\ UNCHANGED <<results, not_passed, future, job>>
       ELSE LET result == outcome[c].result
                state == outcome[c].state
            IN  /\ results' = DictSet(results, result.name, result)
                /\ IF Truthy(result.passed)
                   THEN /\ not_done' = (not_done \ {c}) \cup graph[result.name]
                        /\ Submit(graph[result.name], state)
                        /\ UNCHANGED not_passed
                   ELSE /\ not_passed' = Append(not_passed, result.name)
                        /\ not_done' = not_done \ {c}
                        /\ UNCHANGED <<future, job>>
                /\ UNCHANGED pc
    /\ UNCHANGED <<dependency, targets, environ, running, outcome,
                   returned, ended_with>>
    /\ UNCHANGED nonSchedVars

\* not_done is empty: the with block ends, the children of the checks that
\* did not pass are skipped and the list is returned.
Return ==
    /\ pc = "loop"
    /\ not_done = {}
    /\ results' = SkipAll(not_passed, results)
    /\ returned' = FilterNone(DictValues(results'))
    /\ pc' = "returned"
    /\ UNCHANGED <<dependency, targets, environ, not_done, not_passed,
                   future, job, running, outcome, ended_with>>
    /\ UNCHANGED nonSchedVars

\* The pool has drained after future.result() raised: run raises.
Raise ==
    /\ pc = "shutdown"
    /\ \A c \in Names : future[c] \in {"none", "finished"}
    /\ pc' = "raised"
    /\ UNCHANGED <<dependency, targets, environ, results, not_done,
                   not_passed, future, job, running, outcome, returned,
                   ended_with>>
    /\ UNCHANGED nonSchedVars

\* run is called with targets that name declared checks (or with none) and
\* with any of the values of the knob.
Next ==
    \/ \E ts \in SUBSET Names, env \in EnvValues : RunStart(ts, env)
    \/ \E c \in Names, a \in BOOLEAN : StartCheck(c, a)
    \/ \E c \in Names : CheckReturns(c)
    \/ \E c \in Names : CheckFails(c)
    \/ \E c \in Names : CheckErrors(c)
    \/ \E c \in Names : CheckTimesOut(c)
    \/ \E c \in Names : HandleDone(c)
    \/ Return
    \/ Raise

Spec == Init /\ [][Next]_vars

\* ================================================================ claims
\* The declared dependencies of a check, read off the declarations.
RECURSIVE Ancestors(_)
Ancestors(c) ==
    IF dependency[c] = None
    THEN {}
    ELSE {dependency[c]} \cup Ancestors(dependency[c])

\* The transitive dependents of a check.
Dependents(c) == {d \in Names : c \in Ancestors(d)}

\* The function of c was invoked (it is executing or has ended).
Invoked(c) == future[c] \in {"running", "finished"}

\* The future of c finished and carries a result with outcome passed.
FinishedPassed(c) ==
    /\ future[c] = "finished"
    /\ ~outcome[c].exception
    /\ outcome[c].result.passed = "True"

IsSkipped(r) ==
    /\ r.passed = "None"
    /\ r.cause.rationale.text = "can't check until a frown turns upside down"
    /\ r.cause.error = NoError

\* The entry of the returned list for check c, NoResult when there is none.
ReturnedFor(c) ==
    IF \E i \in 1..Len(returned) : returned[i].name = c
    THEN returned[CHOOSE i \in 1..Len(returned) : returned[i].name = c]
    ELSE NoResult

\* C1: a check is submitted, and so its function invoked, only after the
\* check it declares as dependency has finished with outcome passed; checks
\* without dependency are the only ones submitted before anything finished.
C1_RunsOnlyAfterDependencyPassed ==
    \A c \in Names :
        future[c] # "none" /\ dependency[c] # None
            => FinishedPassed(dependency[c])

\* A dependent check is executing, its dependency having passed, while an
\* unrelated check is still queued or executing.
C1_Witness ==
    \E c \in Names, d \in Names :
        /\ future[c] = "running"
        /\ dependency[c] # None
        /\ FinishedPassed(dependency[c])
        /\ d # c /\ d \notin Ancestors(c)
        /\ future[d] \in {"pending", "running"}

\* C2: when a check finished failed or errored, none of its transitive
\* dependents is ever submitted, and each of them is in the returned list
\* with a skipped result.
C2_DependentsOfFailureSkipped ==
    \A c \in Names :
        (future[c] = "finished" /\ ended_with[c] # "return")
            => LET dependents == Dependents(c)
               IN  \A d \in dependents :
                       /\ future[d] = "none"
                       /\ pc = "returned" => IsSkipped(ReturnedFor(d))

\* The run returned after a check with a dependent of a dependent errored.
C2_Witness ==
    /\ pc = "returned"
    /\ \E c \in Names, d \in Names, e \in Names :
           /\ ended_with[c] = "RuntimeError"
           /\ dependency[d] = c /\ dependency[e] = d
           /\ IsSkipped(ReturnedFor(e))

\* The check function of c ended with an expected failure or ran into its
\* timeout.
Failed(c) == future[c] = "finished" /\ ended_with[c] \in {"Failure", "SIGALRM"}

\* C25 as stated: in the returned list a failed check is reported failed,
\* and each of its dependents is reported skipped with a cause whose
\* rationale names the failed check.
C25_CauseNamesFailedCheck ==
    pc = "returned" =>
        \A c \in Names :
            Failed(c) =>
                /\ ReturnedFor(c).passed = "False"
                /\ \A d \in Dependents(c) :
                       /\ ReturnedFor(d).passed = "None"
                       /\ ReturnedFor(d).cause.rationale.arg = c

\* C25: in the returned list a failed check is reported failed, and each
\* of its transitive dependents is reported skipped with the same fixed
\* cause, which names no check, and with the name of its own declared
\* dependency in the field dependency: the failed check for a direct
\* dependent, the skipped check in between for a dependent further down.
C25_SkippedNamesItsDependency ==
    pc = "returned" =>
        \A c \in Names :
            Failed(c) =>
                /\ ReturnedFor(c).passed = "False"
                /\ ReturnedFor(c).cause.error = NoError
                /\ \A d \in Dependents(c) :
                       /\ IsSkipped(ReturnedFor(d))
                       /\ ReturnedFor(d).cause =
                              Failure(Format("can't check until a frown turns upside down", 0),
                                      "None")
                       /\ ReturnedFor(d).dependency = dependency[d]

\* The run returned after a check failed that has a dependent and a
\* dependent of that dependent: the first names the failed check, the
\* second names the first.
C25_Witness ==
    /\ pc = "returned"
    /\ \E c \in Names, d \in Names, e \in Names :
           /\ ended_with[c] = "Failure"
           /\ dependency[d] = c /\ dependency[e] = d
           /\ ReturnedFor(c).passed = "False"
           /\ ReturnedFor(d).dependency = c
           /\ IsSkipped(ReturnedFor(e))
           /\ ReturnedFor(e).dependency = d

\* C3: the returned list is in declaration order (names are declaration
\* indices), whatever the order in which the futures were handled.
C3_DeclarationOrder ==
    pc = "returned" =>
        \A i \in 1..Len(returned), j \in 1..Len(returned) :
            i < j => returned[i].name < returned[j].name

\* The run returned every check although a later-declared check was
\* handled before an earlier-declared one.
C3_Witness ==
    /\ pc = "returned"
    /\ Len(returned) = MaxChecks
    /\ Len(not_passed) >= 2
    /\ not_passed[1] > not_passed[2]

\* The checks of the active graph: all of them, or the targets and their
\* transitive dependencies.
ActiveChecks ==
    IF targets = {}
    THEN Names
    ELSE targets \cup UNION {Ancestors(t) : t \in targets}

IsOutcome(r) ==
    \/ r.passed = "True"
    \/ r.passed = "False"
    \/ r.passed = "None" /\ r.cause.error # NoError
    \/ IsSkipped(r)

\* C4: the run ends by returning, never by raising, and the returned list
\* has exactly one entry, with one of the four outcomes, for every check of
\* the active graph.
C4_ReturnsResultForEveryActiveCheck ==
    /\ pc # "raised"
    /\ pc = "returned" =>
          \A c \in ActiveChecks :
              /\ Cardinality({i \in 1..Len(returned) : returned[i].name = c}) = 1
              /\ IsOutcome(ReturnedFor(c))

\* The workers the run is configured with: the knob when it is a number,
\* else the platform default.
ConfiguredWorkers == IF environ[1] = "digits" THEN environ[2] ELSE CpuCount

\* C5: never more checks executing than the configured number of workers.
C5_AtMostConfiguredWorkers == Cardinality(Executing) <= ConfiguredWorkers

\* Two checks of unrelated branches execute at the same time, which fills
\* the pool.
C5_Witness ==
    \E c \in Names, d \in Names :
        /\ c # d
        /\ future[c] = "running" /\ future[d] = "running"
        /\ c \notin Ancestors(d) /\ d \notin Ancestors(c)
        /\ Cardinality(Executing) = ConfiguredWorkers

\* C6: in a run with targets, the checks in the graph the run starts with
\* are exactly the targets and their transitive dependencies, and no other
\* check is ever submitted.
C6_OnlyTargetsAndDependenciesRun ==
    (pc # "idle" /\ targets # {}) =>
        LET active == ActiveChecks
        IN  /\ (\A c \in Names : ~Invoked(c)) =>
                   UNION {graph[k] : k \in DOMAIN graph} = active
            /\ \A c \in Names : future[c] # "none" => c \in active

\* A run with targets returned after every target and dependency ran and
\* passed, and a dependent of a passed check outside the targets never ran.
C6_Witness ==
    /\ pc = "returned"
    /\ targets # {}
    /\ \A c \in ActiveChecks : FinishedPassed(c)
    /\ \E d \in Names \ ActiveChecks :
           /\ dependency[d] \in ActiveChecks
           /\ future[d] = "none"

\* C7: in a run with targets the returned list has no entry for a check
\* that is neither a target nor a transitive dependency of one.
C7_NoEntryOutsideTargets ==
    (pc = "returned" /\ targets # {}) =>
        \A i \in 1..Len(returned) : returned[i].name \in ActiveChecks

\* C8: every execution of a check gives the run a result and the run is
\* never aborted: passed after a normal return, failed with the payload of
\* the Failure as cause after a Failure, errored with the type name and the
\* message of the exception in the cause after any other exception.
C8_ExecutionAlwaysYieldsResult ==
    /\ pc \notin {"shutdown", "raised"}
    /\ \A c \in Names :
          future[c] = "finished" =>
              /\ ~outcome[c].exception
              /\ outcome[c].result.name = c
              /\ ended_with[c] = "return" =>
                    outcome[c].result.passed = "True"
              /\ ended_with[c] = "Failure" =>
                    /\ outcome[c].result.passed = "False"
                    /\ outcome[c].result.cause.rationale.text = "expected failure"
                    /\ outcome[c].result.cause.help = "help"
              /\ ended_with[c] = "RuntimeError" =>
                    /\ outcome[c].result.passed = "None"
                    /\ outcome[c].result.cause.error =
                           [type |-> "RuntimeError", value |-> "boom"]

\* C9: a check stopped by its timeout finishes failed, not errored, with a
\* rationale that states the seconds of its timeout; none of its dependents
\* is submitted, and the returned list has it as failed and its dependents
\* as skipped.
C9_TimeoutIsFailure ==
    \A c \in Names :
        ended_with[c] = "SIGALRM" =>
            /\ ~outcome[c].exception
            /\ outcome[c].result.passed = "False"
            /\ outcome[c].result.cause.error = NoError
            /\ outcome[c].result.cause.rationale =
                   [text |-> "check timed out after {} seconds",
                    arg |-> timeout_of(c)]
            /\ LET dependents == Dependents(c)
               IN  /\ \A d \in dependents : future[d] = "none"
                   /\ pc = "returned" =>
                         /\ ReturnedFor(c) = outcome[c].result
                         /\ \A d \in dependents : IsSkipped(ReturnedFor(d))

\* The run returned after the one-second check timed out, with a dependent
\* of it skipped.
C9_Witness ==
    /\ pc = "returned"
    /\ \E c \in Names, d \in Names :
           /\ ended_with[c] = "SIGALRM"
           /\ timeout_of(c) = ShortTimeout
           /\ ReturnedFor(c).cause.rationale.arg = ShortTimeout
           /\ dependency[d] = c
           /\ IsSkipped(ReturnedFor(d))

\* C10: a dependent that declares a parameter is called with the value its
\* declared dependency returned as sole argument, a dependent that declares
\* none is called without argument.
C10_DependentGetsStateOfItsDependency ==
    \A c \in Names :
        (future[c] = "running" /\ dependency[c] # None) =>
            IF running[c].declares_args
            THEN running[c].args = <<StateOf(dependency[c])>>
            ELSE running[c].args = <<>>

\* Two dependents of a passed check execute at once, one that declares a
\* parameter and holds the state, one that declares none.
C10_Witness ==
    \E c \in Names, d \in Names :
        /\ future[c] = "running" /\ future[d] = "running"
        /\ dependency[c] # None /\ dependency[d] = dependency[c]
        /\ ended_with[dependency[c]] = "return"
        /\ running[c].declares_args
        /\ running[c].args = <<StateOf(dependency[c])>>
        /\ ~running[d].declares_args
        /\ running[d].args = <<>>

\* C11: a check whose function returned is reported passed whether or not
\* the value it returned can be pickled, the run is not aborted, and a
\* dependent that declares a parameter is called with that value or, when
\* the value could not be transferred, with None.
C11_UntransferableStateDoesNotFailRun ==
    \A c \in Names :
        (future[c] = "finished" /\ ended_with[c] = "return") =>
            /\ pc \notin {"shutdown", "raised"}
            /\ FinishedPassed(c)
            /\ \A d \in Names :
                   (dependency[d] = c /\ future[d] = "running"
                        /\ running[d].declares_args) =>
                       running[d].args \in {<<StateOf(c)>>, <<NoState>>}

\* ------------------------------------------------- a pool process dies
\* concurrent.futures.process.BrokenProcessPool set on a future.
BrokenProcessPool == [exception |-> TRUE, result |-> NoResult, state |-> NoState]

\* The pool process that executes check c is killed (a crash of the
\* interpreter, os._exit, the OOM killer).  The executor marks the pool
\* broken: every future that is queued or executing gets
\* BrokenProcessPool, and the other pool processes are terminated.
WorkerKilled(c) ==
    /\ future[c] = "running"
    /\ ended_with' = [d \in Names |->
                        IF d = c THEN "killed"
                        ELSE IF future[d] = "running" THEN "terminated"
                        ELSE ended_with[d]]
    /\ future' = [d \in Names |->
                    IF future[d] \in {"pending", "running"}
                    THEN "finished" ELSE future[d]]
    /\ outcome' = [d \in Names |->
                     IF future[d] \in {"pending", "running"}
                     THEN BrokenProcessPool ELSE outcome[d]]
    /\ running' = [d \in Names |-> NotRunning]
    /\ UNCHANGED <<dependency, pc, targets, environ, results, not_done,
                   not_passed, job, returned>>
    /\ UNCHANGED nonSchedVars

\* The scheduler with pool processes that can die.
CrashNext ==
    \/ Next
    \/ \E c \in Names : WorkerKilled(c)

CrashSpec == Init /\ [][CrashNext]_vars

\* C12: when the pool process of a check is killed, the run does not raise,
\* no check of another branch is terminated or left without a result of its
\* own, and the returned list has the results of those checks.
C12_KilledWorkerLeavesSiblingsAlone ==
    \A c \in Names :
        ended_with[c] = "killed" =>
            /\ pc # "raised"
            /\ \A d \in Names \ ({c} \cup Dependents(c)) :
                   /\ ended_with[d] # "terminated"
                   /\ future[d] = "finished" => ~outcome[d].exception
                   /\ (pc = "returned" /\ d \in ActiveChecks) =>
                          ReturnedFor(d) # NoResult

\* C36: a check whose function was invoked (its job is executing or has
\* ended) is never submitted again, so that no step of a run invokes it a
\* second time.
C36_NoCheckInvokedTwice ==
    [][\A c \in Names : Invoked(c) => future'[c] \in {"running", "finished"}]_vars

\* A run returned after a check, its dependent and the dependent of that
\* one were all invoked and passed.
C36_Witness ==
    /\ pc = "returned"
    /\ \E c \in Names, d \in Names, e \in Names :
           /\ dependency[d] = c /\ dependency[e] = d
           /\ FinishedPassed(c) /\ FinishedPassed(d) /\ FinishedPassed(e)

\* C37: in the returned list a check is reported skipped only when its
\* function was never invoked and one of its transitive dependencies
\* finished with a result that is failed or errored, and the entry of a
\* check that was invoked is the result its execution gave.
C37_SkippedOnlyBelowNotPassed ==
    pc = "returned" =>
        \A c \in Names :
            /\ IsSkipped(ReturnedFor(c)) =>
                   /\ ~Invoked(c)
                   /\ \E a \in Ancestors(c) :
                          /\ future[a] = "finished"
                          /\ ~IsSkipped(ReturnedFor(a))
                          /\ ReturnedFor(a).passed \in {"False", "None"}
            /\ Invoked(c) => ReturnedFor(c) = outcome[c].result

\* A run returned in which one check errored, its dependent is reported
\* skipped, and a check that passed kept its result.
C37_Witness ==
    /\ pc = "returned"
    /\ \E c \in Names, d \in Names, e \in Names :
           /\ ended_with[c] = "RuntimeError"
           /\ dependency[d] = c
           /\ IsSkipped(ReturnedFor(d))
           /\ FinishedPassed(e)
           /\ ReturnedFor(e) = outcome[e].result

\* ============================================== the calls of one pool process
\* A pool process takes the jobs of the run one after the other; what a
\* call leaves in the module globals of the process is there for the next.

\* Jobs one pool process takes.
MaxCalls == 2
\* Lines the function of a check logs.
MaxLines == 2
\* Largest max_log_lines a check is declared with.
MaxCap == 2
\* register.after_check calls of one check function.
MaxHooks == 1

\* The scheduler takes no step in the specification of the pool process.
SchedulerNotRunning ==
    /\ dependency = [c \in Names |-> None]
    /\ pc = "idle"
    /\ targets = {}
    /\ environ = <<"unset", 0>>
    /\ results = <<>>
    /\ not_done = {}
    /\ not_passed = <<>>
    /\ future = [c \in Names |-> "none"]
    /\ job = [c \in Names |-> NoState]
    /\ running = [c \in Names |-> NotRunning]
    /\ outcome = [c \in Names |-> NoOutcome]
    /\ returned = <<>>
    /\ ended_with = [c \in Names |-> "not run"]

Reverse(q) == [i \in 1..Len(q) |-> q[Len(q) + 1 - i]]

\* Register.after_check, after_every and before_every without their test of
\* check_running.
register_hook_unguarded(reg, flag, kind, func) ==
    [register |->
        IF kind = "after_check"
        THEN [reg EXCEPT !.after_checks = Append(@, func)]
        ELSE IF kind = "after_every"
        THEN [reg EXCEPT !.after_everies = Append(@, func)]
        ELSE [reg EXCEPT !.before_everies = Append(@, func)],
     error |-> FALSE]

\* Register.after_check, after_every and before_every: the method raises
\* Error before it touches its list when check_running is not what it
\* wants, else it appends func to its list.
register_hook(reg, flag, kind, func) ==
    IF (kind = "after_check") # flag
    THEN [register |-> reg, error |-> TRUE]
    ELSE [register |->
            IF kind = "after_check"
            THEN [reg EXCEPT !.after_checks = Append(@, func)]
            ELSE IF kind = "after_every"
            THEN [reg EXCEPT !.after_everies = Append(@, func)]
            ELSE [reg EXCEPT !.before_everies = Append(@, func)],
          error |-> FALSE]

\* self.spec.loader.exec_module(mod) of run_check.__call__: the checks
\* definition is executed again and registers its hooks again.
exec_module(reg, flag) ==
    LET before == register_hook(reg, flag, "before_every", ModuleBefore)
    IN  register_hook(before.register, flag, "after_every",
                      ModuleAfter).register

RECURSIVE RunBeforeEveries(_, _)
\* Register.__enter__: the hooks of _before_everies in order, applied to
\* the buffers <<_log, _data>>.
RunBeforeEveries(hooks, buffers) ==
    IF hooks = <<>>
    THEN buffers
    ELSE LET f == Head(hooks)
             after == IF f = ClearLog THEN <<<<>>, buffers[2]>>
                      ELSE IF f = ClearData THEN <<buffers[1], <<>>>>
                      ELSE buffers
         IN  RunBeforeEveries(Tail(hooks), after)

\* Register.__exit__ that runs the after hooks whether or not the block
\* raised.
register_exit_always(raised, reg, hook_raises) ==
    IF hook_raises /\ reg.after_checks # <<>>
    THEN [ran |-> <<reg.after_checks[Len(reg.after_checks)]>>,
          register |-> [reg EXCEPT !.after_checks =
                            SubSeq(@, 1, Len(@) - 1)],
          raised |-> TRUE]
    ELSE [ran |-> Reverse(reg.after_checks) \o reg.after_everies,
          register |-> [reg EXCEPT !.after_checks = <<>>],
          raised |-> FALSE]

\* Register.__exit__: nothing when the block raised; else the after_check
\* hooks, popped from the end of the list, then the after_every hooks.  A
\* hook that raises (hook_raises: the one popped first does) ends it.
register_exit(raised, reg, hook_raises) ==
    IF raised
    THEN [ran |-> <<>>, register |-> reg, raised |-> FALSE]
    ELSE IF hook_raises /\ reg.after_checks # <<>>
    THEN [ran |-> <<reg.after_checks[Len(reg.after_checks)]>>,
          register |-> [reg EXCEPT !.after_checks =
                            SubSeq(@, 1, Len(@) - 1)],
          raised |-> TRUE]
    ELSE [ran |-> Reverse(reg.after_checks) \o reg.after_everies,
          register |-> [reg EXCEPT !.after_checks = <<>>],
          raised |-> FALSE]

\* _log[-n:] of Python: the last n lines, and the whole list when n is 0
\* (-0 is 0) or more than its length.
LastLines(lines, n) ==
    IF n = 0 \/ n >= Len(lines)
    THEN lines
    ELSE SubSeq(lines, Len(lines) - n + 1, Len(lines))

\* result.log = _log if len(_log) <= max_log_lines
\*              else ["..."] + _log[-max_log_lines:]
result_log(lines, max_log_lines) ==
    IF Len(lines) <= max_log_lines
    THEN lines
    ELSE <<TruncationMarker>> \o LastLines(lines, max_log_lines)

\* The finally clause of the wrapper and of run_check.__call__: the result
\* gets the buffers and goes to the pool.
Finish(passed, how) ==
    /\ sent' = [job |-> call.job, passed |-> passed,
                log |-> result_log(_log, call.max_log_lines),
                data |-> _data, logged |-> _log,
                max_log_lines |-> call.max_log_lines]
    /\ call' = [call EXCEPT !.at = "idle", !.ended = how]
    /\ check_running' = FALSE

\* run_check.__call__ up to the call of the check function: the module is
\* executed, the directory copied, the before_every hooks run.
CallCheck(max_log_lines) ==
    /\ call.at = "idle"
    /\ calls < MaxCalls
    /\ calls' = calls + 1
    /\ register' = exec_module(register, check_running)
    /\ check_running' = TRUE
    /\ LET buffers == RunBeforeEveries(register'.before_everies, <<_log, _data>>)
       IN  /\ _log' = buffers[1]
           /\ _data' = buffers[2]
    /\ events' = register'.before_everies \o <<FunctionCall(calls')>>
    /\ call' = [at |-> "function", job |-> calls',
                max_log_lines |-> max_log_lines, lines |-> 0, hooks |-> 0,
                ended |-> "executing", registration |-> NoRegistration]
    /\ UNCHANGED <<sent, nonProcVars>>

\* run_check.__call__ of a check whose shutil.copytree raises (a file of
\* the source that cannot be read, a dangling symlink, a full disk): the
\* except BaseException clause, then the finally clause.
CopyFails(max_log_lines) ==
    /\ call.at = "idle"
    /\ calls < MaxCalls
    /\ calls' = calls + 1
    /\ register' = exec_module(register, check_running)
    /\ events' = <<>>
    /\ sent' = [job |-> calls', passed |-> "None",
                log |-> result_log(_log, max_log_lines),
                data |-> _data, logged |-> _log,
                max_log_lines |-> max_log_lines]
    /\ call' = [at |-> "idle", job |-> calls',
                max_log_lines |-> max_log_lines, lines |-> 0, hooks |-> 0,
                ended |-> "copytree", registration |-> NoRegistration]
    /\ check_running' = FALSE
    /\ UNCHANGED <<_log, _data, nonProcVars>>

\* The check function calls log(line).
Log ==
    /\ call.at = "function"
    /\ call.lines < MaxLines
    /\ _log' = Append(_log, <<call.job, call.lines + 1>>)
    /\ call' = [call EXCEPT !.lines = @ + 1]
    /\ UNCHANGED <<register, check_running, _data, events, sent, calls,
                   nonProcVars>>

\* The check function calls data(key=value).
Data(key) ==
    /\ call.at = "function"
    /\ IF HasKey(_data, key) THEN DictGet(_data, key) # call.job ELSE TRUE
    /\ _data' = DictSet(_data, key, call.job)
    /\ UNCHANGED <<register, check_running, _log, call, events, sent, calls,
                   nonProcVars>>

\* The check function calls register.after_check(func), as c.valgrind
\* does.
AfterCheck ==
    /\ call.at = "function"
    /\ call.hooks < MaxHooks
    /\ LET did == register_hook(register, check_running, "after_check",
                                AfterCheckHook(call.job))
       IN  /\ register' = did.register
           /\ call' = [call EXCEPT
                         !.hooks = @ + 1,
                         !.registration = [kind |-> "after_check",
                                           error |-> did.error]]
    /\ UNCHANGED <<check_running, _log, _data, events, sent, calls,
                   nonProcVars>>

\* The check function calls register.before_every(func) or
\* register.after_every(func).
EveryInCheck(kind) ==
    /\ call.at = "function"
    /\ call.hooks < MaxHooks
    /\ LET did == register_hook(register, check_running, kind,
                                <<kind, call.job>>)
       IN  /\ register' = did.register
           /\ call' = [call EXCEPT
                         !.hooks = @ + 1,
                         !.registration = [kind |-> kind,
                                           error |-> did.error]]
    /\ UNCHANGED <<check_running, _log, _data, events, sent, calls,
                   nonProcVars>>

\* register.after_check(func) is called between two checks, as c.valgrind
\* does when it is used outside a check.
AfterCheckOutsideCheck ==
    /\ call.at = "idle"
    /\ LET did == register_hook(register, check_running, "after_check",
                                AfterCheckHook(call.job))
       IN  /\ register' = did.register
           /\ call' = [call EXCEPT
                         !.registration = [kind |-> "after_check",
                                           error |-> did.error]]
    /\ UNCHANGED <<check_running, _log, _data, events, sent, calls,
                   nonProcVars>>

\* The check function returns: Register.__exit__ runs the after hooks, and
\* the check passed unless one of them raised Failure.
FunctionReturns(hook_raises) ==
    /\ call.at = "function"
    /\ LET exit == register_exit(FALSE, register, hook_raises)
       IN  /\ register' = exit.register
           /\ events' = events \o exit.ran
           /\ IF exit.raised
              THEN Finish("False", "hook Failure")
              ELSE /\ ~hook_raises
                   /\ Finish("True", "return")
    /\ UNCHANGED <<_log, _data, calls, nonProcVars>>

\* The check function raises: Failure, another exception, or the Timeout
\* of the alarm.
FunctionRaises(how) ==
    /\ call.at = "function"
    /\ LET exit == register_exit(TRUE, register, FALSE)
       IN  /\ register' = exit.register
           /\ events' = events \o exit.ran
    /\ Finish(IF how = "RuntimeError" THEN "None" ELSE "False", how)
    /\ UNCHANGED <<_log, _data, calls, nonProcVars>>

WorkerNext ==
    \/ \E cap \in 0..MaxCap : CallCheck(cap)
    \/ \E cap \in 0..MaxCap : CopyFails(cap)
    \/ Log
    \/ \E key \in {"k"} : Data(key)
    \/ AfterCheck
    \/ \E kind \in {"before_every", "after_every"} : EveryInCheck(kind)
    \/ AfterCheckOutsideCheck
    \/ \E hook_raises \in BOOLEAN : FunctionReturns(hook_raises)
    \/ \E how \in {"Failure", "RuntimeError", "SIGALRM"} : FunctionRaises(how)

WorkerInit ==
    /\ SchedulerNotRunning
    /\ ProcessNotStarted
    /\ NothingLoaded
    /\ NothingMaterialized
    /\ NoFiles
    /\ NoSlug
    /\ NoPolling
    /\ NoTree
    /\ NoCache
    /\ NoCredentials
    /\ NoHarness
    /\ NoRegex
    /\ NoPool
    /\ NoScope

WorkerSpec == WorkerInit /\ [][WorkerNext]_vars

\* Where the check function is in the history of the call (0: it was not
\* called).
FunctionAt ==
    IF \E i \in 1..Len(events) : events[i][1] = "function"
    THEN CHOOSE i \in 1..Len(events) : events[i][1] = "function"
    ELSE 0

\* C13: in every call the hooks that ran before the check function are all
\* the before_every hooks, in order; hooks ran after the function only when
\* it returned normally, and then the after_check hooks came first and the
\* after_every hooks, all of them unless an after_check hook raised,
\* followed; after a function that raised Failure, another exception or
\* timed out, nothing ran.
C13_HooksAroundFunction ==
    LET f == FunctionAt
        after == SubSeq(events, f + 1, Len(events))
        n == Cardinality({i \in 1..Len(after) : after[i][1] = "after_check"})
    IN  f # 0 =>
            /\ SubSeq(events, 1, f - 1) = register.before_everies
            /\ call.ended \in {"executing", "Failure", "RuntimeError", "SIGALRM"}
                   => after = <<>>
            /\ \A i \in 1..Len(after) :
                   after[i][1] = (IF i <= n THEN "after_check" ELSE "after_every")
            /\ call.ended = "return"
                   => SubSeq(after, n + 1, Len(after)) = register.after_everies
            /\ call.ended = "hook Failure" => n = 1 /\ Len(after) = 1

\* A later call of the process whose function registered an after_check
\* hook and returned: the hook ran right after the function, which ran
\* right after the before_every hooks, and an after_every hook ran last.
C13_Witness ==
    /\ call.ended = "return"
    /\ calls >= 2
    /\ sent.passed = "True"
    /\ \E i \in 1..Len(events) :
           /\ events[i] = FunctionCall(call.job)
           /\ i = Len(register.before_everies) + 1
           /\ i + 1 <= Len(events)
           /\ events[i + 1] = AfterCheckHook(call.job)
           /\ events[Len(events)] = ModuleAfter

\* C14: every after_check hook that runs in a call was registered during
\* that call, whatever the calls the process made before.
C14_AfterCheckHookRunsInItsOwnCheck ==
    \A i \in 1..Len(events) :
        events[i][1] = "after_check" => events[i][2] = call.job

\* C15: the log and the data of the result of a call hold only lines and
\* values emitted during that call.
C15_ResultHoldsOwnEmissionsOnly ==
    /\ \A i \in 1..Len(sent.log) :
           sent.log[i] = TruncationMarker \/ sent.log[i][1] = sent.job
    /\ \A i \in 1..Len(sent.data) : sent.data[i][2] = sent.job

\* C16: with cap the max_log_lines of the check and n the lines in its
\* buffer, the log of the result is the buffer when n <= cap, and the
\* marker followed by the last cap lines of the buffer when n > cap.
C16_LogCappedAtMaxLogLines ==
    LET n == Len(sent.logged)
        cap == sent.max_log_lines
    IN  IF n <= cap
        THEN sent.log = sent.logged
        ELSE sent.log =
                 <<TruncationMarker>> \o SubSeq(sent.logged, n - cap + 1, n)

\* A step of the process as the guards of the register allow it.
GuardedRegistration ==
    /\ (Len(register'.after_checks) > Len(register.after_checks))
            => check_running
    /\ (\/ Len(register'.before_everies) > Len(register.before_everies)
        \/ Len(register'.after_everies) > Len(register.after_everies))
            => ~check_running
    /\ (call'.registration # call.registration)
            => /\ call'.registration.kind # "none"
                    => (call'.registration.error
                         <=> ((call'.registration.kind = "after_check")
                                 # check_running))
               /\ call'.registration.error
                    => register' = register

\* C39: after_check adds its hook only while a check is running and
\* before_every and after_every only while none is; a registration that
\* raised Error left the three lists as they were; and check_running is
\* true exactly while the check function executes, so it is false after
\* every call, however the call ended.
C39_RegistrationGuardedByCheckRunning ==
    /\ [](check_running <=> call.at = "function")
    /\ [][GuardedRegistration]_vars

\* A check function called before_every, got Error and ended with it: the
\* lists hold what the two executions of the definition so far put there,
\* and the flag is false again.
C39_Witness ==
    /\ call.at = "idle"
    /\ call.ended = "RuntimeError"
    /\ call.registration = [kind |-> "before_every", error |-> TRUE]
    /\ ~check_running
    /\ calls = 2

\* How often a hook is in the history of the call.
TimesRun(hook) == Cardinality({i \in 1..Len(events) : events[i] = hook})

\* C38: in every call the before_every hook of the checks definition ran
\* exactly once before the check function, and when the function returned
\* and the after hooks ran, its after_every hook ran exactly once, however
\* many jobs the process took before.
C38_DefinitionHooksRunOncePerCheck ==
    /\ FunctionAt # 0 => TimesRun(ModuleBefore) = 1
    /\ call.ended = "return" => TimesRun(ModuleAfter) = 1

\* ================================================ loading a checks definition
\* A declaration of a checks definition is one use of the check decorator:
\* the name of the decorated function, whether the check is bound to the
\* module attribute of that name ("def") or to another one ("assigned",
\* as in compiles = check(exists)(standard_compile_check("hello"))), and the
\* dependency argument: none, the check an earlier declaration made, or a
\* function that is not a check.
DependencyArguments(k) ==
    {<<"none", 0>>, <<"function", 0>>} \cup {<<"check", i>> : i \in 1..(k - 1)}

Definitions ==
    {d \in [1..MaxChecks ->
              [name : FunctionNames, bound : {"def", "assigned"},
               dependency : {<<"none", 0>>, <<"function", 0>>}
                               \cup {<<"check", i>> : i \in 1..MaxChecks}]] :
        \A k \in 1..MaxChecks : d[k].dependency \in DependencyArguments(k)}

\* The module attribute declaration k binds its check to.
AttributeOf(d, k) == IF d[k].bound = "def" THEN d[k].name ELSE AliasOf(k)

\* check._check_dependency.__name__ of declaration k, None without one.
DependencyName(d, k) ==
    IF d[k].dependency[1] = "none" THEN None
    ELSE IF d[k].dependency[1] = "function" THEN Helper
    ELSE d[d[k].dependency[2]].name

\* The declaration whose check a module attribute holds once the module
\* was executed: the last that bound it.
BoundTo(d, attribute) ==
    CHOOSE k \in 1..Len(d) :
        /\ AttributeOf(d, k) = attribute
        /\ \A j \in (k + 1)..Len(d) : AttributeOf(d, j) # attribute

\* inspect.getmembers(check_module, ...): the names of the attributes that
\* hold a check.
Members(d) == {AttributeOf(d, k) : k \in 1..Len(d)}

\* CheckRunner.__enter__
CheckRunner_enter(d) ==
    [status |-> "loaded",
     check_names |-> [k \in 1..Len(d) |-> d[k].name],
     dependency_graph |->
         [key \in {None} \cup Identifiers |->
             {name \in Members(d) : DependencyName(d, BoundTo(d, name)) = key}],
     check_descriptions |-> Members(d)]

\* check.__name__ of the check run_check(name) runs: result.name.
ResultName(d, name) == d[BoundTo(d, name)].name

RECURSIVE Scheduled(_, _, _)
\* The checks submitted in a run in which every check passes: those of
\* graph[None], and the children graph[result.name] of every result.
Scheduled(d, g, submitted) ==
    LET more == submitted \cup
                  UNION {g[ResultName(d, name)] : name \in submitted}
    IN  IF more = submitted THEN submitted ELSE Scheduled(d, g, more)

\* list(filter(None, results.values())) as names: the keys of results, in
\* the order of check_names, that got a result.
ReturnedNames(d, reg, g) ==
    LET got == {ResultName(d, name) : name \in Scheduled(d, g, g[None])}
        first(i) == \A j \in 1..(i - 1) : reg.check_names[j] # reg.check_names[i]
        keep == {i \in 1..Len(reg.check_names) :
                    first(i) /\ reg.check_names[i] \in got}
        RECURSIVE pick(_)
        pick(i) == IF i > Len(reg.check_names) THEN <<>>
                   ELSE (IF i \in keep THEN <<reg.check_names[i]>> ELSE <<>>)
                            \o pick(i + 1)
    IN  pick(1)

\* CheckRunner._create_inverse_dependency_graph, as the set of its items.
InverseItems(reg) ==
    {p \in Identifiers \X ({None} \cup Identifiers) :
        p[1] \in reg.dependency_graph[p[2]]}

RECURSIVE Walk(_, _, _)
\* The while loop of dependencies_of from one target: the set deps, or
\* {"KeyError"} when inverse_graph has no entry for a name on the way.
Walk(inverse, curr_check, deps) ==
    IF curr_check = None \/ curr_check \in deps
    THEN deps
    ELSE IF \E p \in inverse : p[1] = curr_check
    THEN Walk(inverse, (CHOOSE p \in inverse : p[1] = curr_check)[2],
              deps \cup {curr_check})
    ELSE {-1}

\* CheckRunner.build_subgraph for the set checks.
Subgraph(reg, checks) ==
    [key \in {None} \cup Identifiers |->
        IF key # None /\ key \notin checks
        THEN {}
        ELSE {child \in reg.dependency_graph[key] : child \in checks}]

LoadInit ==
    /\ SchedulerNotRunning
    /\ ProcessNotStarted
    /\ definition \in Definitions
    /\ registry = NotLoaded
    /\ ran = NotRun
    /\ NothingMaterialized
    /\ NoFiles
    /\ NoSlug
    /\ NoPolling
    /\ NoTree
    /\ NoCache
    /\ NoCredentials
    /\ NoHarness
    /\ NoRegex
    /\ NoPool
    /\ NoScope

\* with CheckRunner(checks_file, included) as runner
EnterRunner ==
    /\ registry.status = "not loaded"
    /\ registry' = CheckRunner_enter(definition)
    /\ UNCHANGED <<definition, ran, nonLoadVars>>

\* runner.run() in which every check that is submitted passes.
RunAll ==
    /\ registry.status = "loaded"
    /\ ran.status = "not run"
    /\ ran' = [status |-> "returned", targets |-> {},
               names |-> ReturnedNames(definition, registry,
                                       registry.dependency_graph)]
    /\ UNCHANGED <<definition, registry, nonLoadVars>>

\* runner.run(targets=[target]) in which every check that is submitted
\* passes.
RunTarget(target) ==
    /\ registry.status = "loaded"
    /\ ran.status = "not run"
    /\ LET inverse == InverseItems(registry)
       IN  IF ~ \E p \in inverse : p[1] = target
           THEN ran' = [status |-> "Error: Unknown check", targets |-> {target},
                        names |-> <<>>]
           ELSE LET checks == Walk(inverse, target, {})
                IN  IF checks = {-1}
                    THEN ran' = [status |-> "KeyError", targets |-> {target},
                                 names |-> <<>>]
                    ELSE ran' = [status |-> "returned", targets |-> {target},
                                 names |-> ReturnedNames(definition, registry,
                                              Subgraph(registry, checks))]
    /\ UNCHANGED <<definition, registry, nonLoadVars>>

LoadNext ==
    \/ EnterRunner
    \/ RunAll
    \/ \E target \in Identifiers : RunTarget(target)

LoadSpec == LoadInit /\ [][LoadNext]_vars

\* The names of the value sets of a dependency graph, once per set they
\* are in.
Occurrences(g, name) == Cardinality({key \in DOMAIN g : name \in g[key]})

\* No two declarations of the definition decorate functions of one name.
DistinctNames(d) ==
    \A j \in 1..Len(d), k \in 1..Len(d) : j # k => d[j].name # d[k].name
\* Every check is bound to the attribute of the name of its function.
BoundByDef(d) == \A k \in 1..Len(d) : d[k].bound = "def"
\* Some declaration names a function that is not a check as dependency.
UnknownDependency(d) == \E k \in 1..Len(d) : d[k].dependency[1] = "function"

\* C17: a definition in which a check declares a dependency that is not a
\* check (and that has no other flaw: its checks have names of their own
\* and are bound to them) does not load, and no run over it returns a list
\* that lacks one of its checks.
C17_UnknownDependencyFailsLoad ==
    (DistinctNames(definition) /\ BoundByDef(definition)
        /\ UnknownDependency(definition)) =>
        /\ registry.status # "loaded"
        /\ ran.status = "returned" /\ ran.targets = {} =>
               \A k \in 1..Len(definition) :
                   \E i \in 1..Len(ran.names) : ran.names[i] = definition[k].name

\* The names on a cycle of a dependency graph: a name is among the
\* descendants of its own result name.
RECURSIVE Below(_, _, _)
Below(d, g, names) ==
    LET more == names \cup UNION {g[ResultName(d, name)] : name \in names}
    IN  IF more = names THEN names ELSE Below(d, g, more)

OnCycle(d, g) ==
    {name \in Members(d) : name \in Below(d, g, g[ResultName(d, name)])}

\* C18: a definition whose dependencies, as the registry reads them, form
\* a cycle (every dependency being a check, and every check bound to the
\* name of its function) does not load.
C18_CycleFailsLoad ==
    (Len(definition) > 0 /\ BoundByDef(definition)
        /\ ~UnknownDependency(definition) /\
     OnCycle(definition, CheckRunner_enter(definition).dependency_graph) # {})
        => registry.status # "loaded"

\* C19: in the registry loaded from a definition whose checks have names
\* of their own and depend on checks only, every name of check_names is in
\* exactly one value set of the dependency graph, and every name in a value
\* set is a name of check_names, whatever attribute the checks are bound
\* to.
C19_GraphValuesAreCheckNames ==
    (registry.status = "loaded" /\ DistinctNames(definition)
        /\ ~UnknownDependency(definition)) =>
        LET names == {registry.check_names[i] : i \in 1..Len(registry.check_names)}
            g == registry.dependency_graph
        IN  /\ \A name \in names : Occurrences(g, name) = 1
            /\ \A key \in DOMAIN g : g[key] \subseteq names

\* ================================================ the directories of a run
\* Every check of a run works in the directory run_root_dir / its name,
\* which its wrapper fills from the directory of its dependency.  The pool
\* processes copy and run at the same time; a copy is made file by file.

\* src_dir that is always the directory "-".
src_dir_root(c) == None

\* src_dir = run_root_dir / (dependency.__name__ if dependency else "-")
src_dir(c) == IF dependency[c] # None THEN dependency[c] ELSE None

DirInit ==
    /\ dependency \in {d \in [Names -> {None} \cup Names] :
                          \A c \in Names : d[c] < c}
    /\ pc = "idle"
    /\ targets = {}
    /\ environ = <<"unset", 0>>
    /\ results = <<>>
    /\ not_done = {}
    /\ not_passed = <<>>
    /\ future = [c \in Names |-> "none"]
    /\ job = [c \in Names |-> NoState]
    /\ running = [c \in Names |-> NotRunning]
    /\ outcome = [c \in Names |-> NoOutcome]
    /\ returned = <<>>
    /\ ended_with = [c \in Names |-> "not run"]
    /\ ProcessNotStarted
    /\ NothingLoaded
    /\ NothingMaterialized
    /\ NoFiles
    /\ NoSlug
    /\ NoPolling
    /\ NoTree
    /\ NoCache
    /\ NoCredentials
    /\ NoHarness
    /\ NoRegex
    /\ NoPool
    /\ NoScope

\* The wrapper of check c starts in a pool process, which run allows once
\* the dependency of c has passed: shutil.copytree makes the directory of
\* c.
Materialize(c) ==
    /\ run_dir[c].at = "waiting"
    /\ dependency[c] # None => run_dir[dependency[c]].at = "passed"
    /\ run_dir' = [run_dir EXCEPT ![c].at = "copying"]
    /\ UNCHANGED <<run_root_dir, dependency, nonDirVars>>

\* shutil.copytree copies one more file of the source (a file the source
\* does not have is not there in the copy either).
CopyFile(c, f) ==
    /\ run_dir[c].at = "copying"
    /\ f \notin run_dir[c].copied
    /\ run_root_dir' = [run_root_dir EXCEPT ![c][f] = run_root_dir[src_dir(c)][f]]
    /\ run_dir' = [run_dir EXCEPT ![c].copied = @ \cup {f}]
    /\ UNCHANGED <<dependency, nonDirVars>>

\* copytree is done: os.chdir(internal.run_dir), and the check function is
\* called.
Chdir(c) ==
    /\ run_dir[c].at = "copying"
    /\ run_dir[c].copied = Files
    /\ run_dir' = [run_dir EXCEPT ![c].at = "function",
                                  ![c].start = run_root_dir[c]]
    /\ UNCHANGED <<run_root_dir, dependency, nonDirVars>>

\* The check function writes a file of its working directory (it compiles,
\* it runs the program of the student).
WriteFile(c, f) ==
    /\ run_dir[c].at = "function"
    /\ run_root_dir[c][f] # c
    /\ run_root_dir' = [run_root_dir EXCEPT ![c][f] = c]
    /\ UNCHANGED <<run_dir, dependency, nonDirVars>>

\* The check function deletes a file of its working directory.
RemoveFile(c, f) ==
    /\ run_dir[c].at = "function"
    /\ run_root_dir[c][f] = HandedIn
    /\ run_root_dir' = [run_root_dir EXCEPT ![c][f] = Absent]
    /\ UNCHANGED <<run_dir, dependency, nonDirVars>>

\* The wrapper of check c returns its result.
Complete(c, passed) ==
    /\ run_dir[c].at = "function"
    /\ run_dir' = [run_dir EXCEPT
                     ![c].at = IF passed THEN "passed" ELSE "failed",
                     ![c].left = run_root_dir[c]]
    /\ UNCHANGED <<run_root_dir, dependency, nonDirVars>>

DirNext ==
    \/ \E c \in Names : Materialize(c)
    \/ \E c \in Names, f \in Files : CopyFile(c, f)
    \/ \E c \in Names : Chdir(c)
    \/ \E c \in Names, f \in Files : WriteFile(c, f)
    \/ \E c \in Names, f \in Files : RemoveFile(c, f)
    \/ \E c \in Names, passed \in BOOLEAN : Complete(c, passed)

DirSpec == DirInit /\ [][DirNext]_vars

\* C20: the directory the function of a check starts in equals the
\* directory of its dependency as that check left it when it completed
\* (the directory "-" as handed in for a check without dependency); "-"
\* never changes; the directory of a completed check stays as the check
\* left it; and a file in the directory of an executing check is as it was
\* at the start or as the check itself wrote or removed it.
C20_StartsInCopyOfDependencyDirectory ==
    /\ run_root_dir[None] = Pristine
    /\ \A c \in Names :
          /\ run_dir[c].at \in {"function", "passed", "failed"} =>
                 run_dir[c].start =
                     (IF dependency[c] = None THEN Pristine
                      ELSE run_dir[dependency[c]].left)
          /\ run_dir[c].at \in {"passed", "failed"} =>
                 run_root_dir[c] = run_dir[c].left
          /\ run_dir[c].at = "function" =>
                 \A f \in Files :
                     run_root_dir[c][f] \in {run_dir[c].start[f], c, Absent}
          /\ run_dir[c].at = "waiting" => run_root_dir[c] = Missing

\* Two checks with the same dependency, which compiled the program and
\* removed the source: one executes, started in the copy and has written
\* to it, while the copy of the other is half made.
C20_Witness ==
    \E c \in Names, d \in Names :
        /\ c # d
        /\ dependency[c] # None /\ dependency[d] = dependency[c]
        /\ run_dir[dependency[c]].left["hello"] = dependency[c]
        /\ run_dir[dependency[c]].left["hello.c"] = Absent
        /\ run_dir[c].at = "function"
        /\ run_dir[c].start = run_dir[dependency[c]].left
        /\ run_root_dir[c] # run_dir[c].start
        /\ run_dir[d].at = "copying"
        /\ Cardinality(run_dir[d].copied) = 1

\* ================================================ the scope of a CheckRunner
\* A caller constructs a CheckRunner, enters it with a with statement, runs
\* the checks inside and leaves; the check command (run_check of
\* src/bootcs/__main__.py) does so in a try block and turns what happened
\* into its exit status.
\*
\* included_files are the paths 1..Len(args.can_copy); args.can_copy[i]
\* says whether shutil.copy can copy path i.  args.keyword says whether the
\* caller passes language= to the constructor (run_check always does), and
\* args.loads whether the checks definition can be executed.

\* The value of passed of the results of a run, in the order of the list.
ResultLists == UNION {[1..n -> {"True", "False", "None"}] : n \in 0..MaxChecks}

\* Languages the caller can name, and None.
LanguageArguments == {"None", "python"}

\* Exit status 0 as soon as one result passed.
exit_status_some(rs) ==
    IF \E i \in 1..Len(rs) : rs[i] = "True" THEN 0 ELSE 1

\* passed = sum(1 for r in results if r.passed); total = len(results);
\* return 0 if passed == total else 1
exit_status(rs) ==
    LET passed == Cardinality({i \in 1..Len(rs) : rs[i] = "True"})
        total == Len(rs)
    IN  IF passed = total THEN 0 ELSE 1

ScopeInit ==
    /\ SchedulerNotRunning
    /\ ProcessNotStarted
    /\ NothingLoaded
    /\ NothingMaterialized
    /\ NoFiles
    /\ NoSlug
    /\ NoPolling
    /\ NoTree
    /\ NoCache
    /\ NoCredentials
    /\ NoHarness
    /\ NoRegex
    /\ NoPool
    /\ args \in [keyword : BOOLEAN, language : LanguageArguments,
                 can_copy : UNION {[1..n -> BOOLEAN] : n \in 0..MaxFiles},
                 loads : BOOLEAN]
    /\ _current_language \in {"None", "c"}
    /\ ScopeNotEntered

\* CheckRunner(checks_path, included_files) or
\* CheckRunner(checks_path, included_files, language=L): __init__ takes
\* checks_path and included_files only, so a call with the keyword raises
\* TypeError before the body of __init__ runs.
Construct ==
    /\ at = "start"
    /\ IF args.keyword
       THEN /\ exc' = [type |-> "TypeError", files |-> {}]
            /\ at' = "handler"
            /\ UNCHANGED runner
       ELSE /\ runner' = [constructed |-> TRUE, language |-> "no attribute"]
            /\ at' = "entering"
            /\ UNCHANGED exc
    /\ UNCHANGED <<args, _current_language, area, cwd, yielded, reported,
                   status, nonScopeVars>>

\* __enter__ enters lib50.working_area: tempfile.TemporaryDirectory() and
\* dir.mkdir.
working_area ==
    /\ at = "entering"
    /\ area' = [exists |-> TRUE, copied |-> {}]
    /\ at' = "copying"
    /\ UNCHANGED <<args, runner, _current_language, cwd, exc, yielded,
                   reported, status, nonScopeVars>>

\* for f in files: shutil.copy(f, dest).  A path that cannot be copied
\* makes shutil.copy raise an OSError (FileNotFoundError, PermissionError,
\* IsADirectoryError) for that path; it leaves the with block of the
\* TemporaryDirectory, which removes the directory, and then __enter__.
Copy ==
    /\ at = "copying"
    /\ Cardinality(area.copied) < Len(args.can_copy)
    /\ LET f == Cardinality(area.copied) + 1
       IN  IF args.can_copy[f]
           THEN /\ area' = [area EXCEPT !.copied = @ \cup {f}]
                /\ UNCHANGED <<at, exc>>
           ELSE /\ area' = NoArea
                /\ exc' = [type |-> "OSError", files |-> {f}]
                /\ at' = "handler"
    /\ UNCHANGED <<args, runner, _current_language, cwd, yielded, reported,
                   status, nonScopeVars>>

\* working_area yields the directory; __enter__ enters lib50.cd and
\* executes the checks definition (spec.loader.exec_module).  An exception
\* of the definition leaves __enter__, and the with statement with it: the
\* with statement calls __exit__ only once __enter__ has returned.
Load ==
    /\ at = "copying"
    /\ Cardinality(area.copied) = Len(args.can_copy)
    /\ yielded' = area.copied
    /\ cwd' = "run_root_dir"
    /\ IF args.loads
       THEN /\ at' = "running"
            /\ UNCHANGED exc
       ELSE /\ at' = "handler"
            /\ exc' = [type |-> "Exception", files |-> {}]
    /\ UNCHANGED <<args, runner, _current_language, area, reported, status,
                   nonScopeVars>>

\* __exit__: the working area manager removes the temporary directory, the
\* cd manager changes back.
CheckRunner_exit ==
    /\ area' = NoArea
    /\ cwd' = "student_dir"

\* results = runner.run(targets=targets) returns, and the with statement
\* calls __exit__.
RunReturns(rs) ==
    /\ at = "running"
    /\ reported' = rs
    /\ CheckRunner_exit
    /\ at' = "output"
    /\ UNCHANGED <<args, runner, _current_language, exc, yielded, status,
                   nonScopeVars>>

\* runner.run raises, and the with statement calls __exit__ with the
\* exception.
RunRaises ==
    /\ at = "running"
    /\ exc' = [type |-> "Exception", files |-> {}]
    /\ CheckRunner_exit
    /\ at' = "handler"
    /\ UNCHANGED <<args, runner, _current_language, yielded, reported,
                   status, nonScopeVars>>

\* The except clause of run_check returns 1; after the with statement
\* run_check prints the results and returns by the number of passed ones.
\* A caller other than run_check has no exit status.
Leave ==
    /\ at \in {"handler", "output"}
    /\ status' = IF ~args.keyword THEN status
                 ELSE IF at = "handler" THEN 1 ELSE exit_status(reported)
    /\ at' = "returned"
    /\ UNCHANGED <<args, runner, _current_language, area, cwd, exc,
                   yielded, reported, nonScopeVars>>

\* Nothing refers to the runner any more once the caller has left the
\* except clause (the exception held the frame of __enter__ until then):
\* when the interpreter collects it, the two generators are closed, which
\* removes the directory and changes back.
Collect ==
    /\ at = "returned"
    /\ area.exists
    /\ CheckRunner_exit
    /\ UNCHANGED <<args, at, runner, _current_language, exc, yielded,
                   reported, status, nonScopeVars>>

ScopeNext ==
    \/ Construct
    \/ working_area
    \/ Copy
    \/ Load
    \/ \E rs \in ResultLists : RunReturns(rs)
    \/ RunRaises
    \/ Leave
    \/ Collect

ScopeSpec == ScopeInit /\ [][ScopeNext]_vars

\* The with statement has been left.
ScopeEnded == at \in {"handler", "output", "returned"}

\* C21: once the with statement of a CheckRunner has been left, the
\* temporary directory of its working area does not exist, whether the
\* block ended normally, runner.run raised, or the checks definition
\* failed to load in __enter__.
C21_AreaGoneWhenScopeEnds ==
    ScopeEnded => ~area.exists

\* C22: a working area over a file list with a path that cannot be copied
\* fails with MissingFilesError, whose files are all the paths that cannot
\* be copied, and yields nothing.
C22_MissingFilesErrorListsEveryPath ==
    LET missing == {f \in 1..Len(args.can_copy) : ~args.can_copy[f]}
    IN  (missing # {} /\ at \notin {"start", "entering", "copying"}
            /\ runner.constructed) =>
            /\ exc.type = "MissingFilesError"
            /\ exc.files = missing
            /\ yielded = {}

\* C23: run_check returns 0 only if the with statement ended without an
\* exception and every result of the list is passed; it returns 1 when an
\* exception left the with statement; and for every list of results the
\* status computed from it is 0 exactly when no result is failed, errored
\* or skipped.
C23_SuccessOnlyIfAllPassed ==
    /\ status = 0 =>
          /\ exc = NoException
          /\ \A i \in 1..Len(reported) : reported[i] = "True"
    /\ (at = "returned" /\ args.keyword /\ exc # NoException) => status = 1
    /\ \A rs \in ResultLists :
          exit_status(rs) = 0 <=> \A i \in 1..Len(rs) : rs[i] = "True"

\* run_check has returned 1 after an exception left its with statement.
C23_Witness ==
    /\ at = "returned"
    /\ args.keyword
    /\ exc # NoException
    /\ status = 1

\* C28: CheckRunner(checks_path, included_files, language=L) gives a runner
\* whose language is L and, for L other than None, makes L the current
\* language of internal; CheckRunner(checks_path, included_files) gives a
\* runner whose language is None.
C28_LanguageStoredAndSet ==
    at # "start" =>
        /\ runner.constructed
        /\ runner.language = (IF args.keyword THEN args.language ELSE "None")
        /\ (args.keyword /\ args.language # "None") =>
               _current_language = args.language

\* ======================================= two runs of one checks definition
\* The same definition is run twice, each run over a pool of its own with
\* its own number of processes.  What the function of a check does is fixed
\* by the definition (behaviour): it may register a hook with
\* register.after_check that raises Failure when it runs (check50.c.valgrind
\* over a program with memory errors), and it then returns or raises
\* Failure.  A pool process keeps its module state from one job to the next.

\* What the function of a check can do.
Behaviours == [after_check : BOOLEAN, fails : BOOLEAN]

\* run up to the first futures.wait, over the whole graph.
Submitted ==
    /\ pc = "waiting"
    /\ results = initial_results
    /\ not_passed = <<>>
    /\ future = [c \in Names |->
                    IF c \in dependency_graph[None] THEN "pending" ELSE "none"]
    /\ returned = <<>>
    /\ process = [p \in 1..CpuCount |-> Forked]

PoolInit ==
    /\ dependency \in {d \in [Names -> {None} \cup Names] :
                          \A c \in Names : d[c] < c}
    /\ targets = {}
    /\ environ = <<"unset", 0>>
    /\ not_done = {}
    /\ job = [c \in Names |-> NoState]
    /\ running = [c \in Names |-> NotRunning]
    /\ outcome = [c \in Names |-> NoOutcome]
    /\ ended_with = [c \in Names |-> "not run"]
    /\ ProcessNotStarted
    /\ NothingLoaded
    /\ NothingMaterialized
    /\ NoFiles
    /\ NoSlug
    /\ NoPolling
    /\ NoTree
    /\ NoCache
    /\ NoCredentials
    /\ NoHarness
    /\ NoRegex
    /\ NoScope
    /\ behaviour \in [Names -> Behaviours]
    /\ workers \in 1..CpuCount
    /\ round = 1
    /\ returned1 = <<>>
    /\ Submitted

\* A process of the pool that has no job takes a queued one.  The jobs of
\* the checks without dependency are submitted in the iteration order of a
\* set of names, which is not fixed from one run to the next, so any
\* queued job can be the next one even for a pool of one process.
Take(p, c) ==
    /\ pc = "waiting"
    /\ p <= workers
    /\ process[p].job = None
    /\ future[c] = "pending"
    /\ process' = [process EXCEPT ![p].job = c]
    /\ future' = [future EXCEPT ![c] = "running"]
    /\ UNCHANGED <<dependency, pc, results, not_passed, returned, behaviour,
                   workers, round, returned1, nonPoolVars>>

\* The wrapper of the job of process p ends: the function registered its
\* hook and returned or raised, Register.__exit__ ran, and the result went
\* back to run, which stores it and submits the children of a passed check
\* or notes a check that did not pass.
Done(p) ==
    /\ pc = "waiting"
    /\ process[p].job # None
    /\ LET c == process[p].job
           hooks == process[p].after_checks \o
                        (IF behaviour[c].after_check THEN <<AfterCheckHook(c)>>
                         ELSE <<>>)
           exit == register_exit(behaviour[c].fails,
                                 [RegisterAtFork EXCEPT !.after_checks = hooks],
                                 TRUE)
           ended == IF behaviour[c].fails
                    THEN RaisedFailure(Failure(Format("expected failure", 0), "help"))
                    ELSE IF exit.raised
                    THEN RaisedFailure(Failure(Format("valgrind tests failed", 0),
                                               "None"))
                    ELSE Returned(NoState)
           result == wrapper(c, ended)[1]
       IN  /\ process' = [process EXCEPT
                            ![p] = [job |-> None,
                                    after_checks |-> exit.register.after_checks]]
           /\ results' = DictSet(results, c, result)
           /\ IF Truthy(result.passed)
              THEN /\ future' = [d \in Names |->
                                    IF d = c THEN "finished"
                                    ELSE IF d \in dependency_graph[c] THEN "pending"
                                    ELSE future[d]]
                   /\ UNCHANGED not_passed
              ELSE /\ future' = [future EXCEPT ![c] = "finished"]
                   /\ not_passed' = Append(not_passed, c)
    /\ UNCHANGED <<dependency, pc, returned, behaviour, workers, round, returned1,
                   nonPoolVars>>

\* No future is left: the pool shuts down, the children of the checks that
\* did not pass are skipped, and run returns the list.
PoolReturn ==
    /\ pc = "waiting"
    /\ \A c \in Names : future[c] \in {"none", "finished"}
    /\ results' = SkipAll(not_passed, results)
    /\ returned' = FilterNone(DictValues(results'))
    /\ pc' = "returned"
    /\ UNCHANGED <<dependency, not_passed, future, behaviour, workers, process,
                   round, returned1, nonPoolVars>>

\* The definition is run a second time, over a new pool of w processes.
RunAgain(w) ==
    /\ pc = "returned"
    /\ round = 1
    /\ returned1' = returned
    /\ round' = 2
    /\ workers' = w
    /\ pc' = "waiting"
    /\ results' = initial_results
    /\ not_passed' = <<>>
    /\ future' = [c \in Names |->
                     IF c \in dependency_graph[None] THEN "pending" ELSE "none"]
    /\ returned' = <<>>
    /\ process' = [p \in 1..CpuCount |-> Forked]
    /\ UNCHANGED <<dependency, behaviour, nonPoolVars>>

PoolNext ==
    \/ \E p \in 1..CpuCount, c \in Names : Take(p, c)
    \/ \E p \in 1..CpuCount : Done(p)
    \/ PoolReturn
    \/ \E w \in 1..CpuCount : RunAgain(w)

PoolSpec == PoolInit /\ [][PoolNext]_vars

\* C24: the second run of a definition returns the results (name, outcome,
\* cause, dependency) the first run returned, whatever the numbers of
\* processes of the two pools and whichever process took which check.
C24_RunsGiveIdenticalResults ==
    (round = 2 /\ pc = "returned") =>
        {returned[i] : i \in 1..Len(returned)} = {returned1[i] : i \in 1..Len(returned1)}

\* ==================================================== patterns for numbers
\* regex.decimal(number) and a search for its pattern in an output.  An
\* output is the sequence of its characters.

DigitCharacters == <<"0", "1", "2", "3", "4", "5", "6", "7", "8", "9">>
Digits == {DigitCharacters[i] : i \in 1..Len(DigitCharacters)}

\* The characters the outputs are made of.
Characters == {"1", "2", "-", ".", " "}

RECURSIVE StrNat(_)
\* str of a natural number: its decimal digits.
StrNat(n) ==
    IF n < 10
    THEN <<DigitCharacters[n + 1]>>
    ELSE StrNat(n \div 10) \o <<DigitCharacters[(n % 10) + 1]>>

\* str(number) of an int.
Str(n) == IF n < 0 THEN <<"-">> \o StrNat(-n) ELSE StrNat(n)

\* decimal that returns the escaped number alone.
decimal_escaped(n) ==
    [lookbehind |-> FALSE, literal |-> Str(n), lookahead |-> FALSE]

\* negative_lookbehind = r"(?<![\d\-])" if number >= 0 else ""
\* return rf"{negative_lookbehind}{re.escape(str(number))}(?!(\.?\d))"
decimal(n) ==
    [lookbehind |-> n >= 0, literal |-> Str(n), lookahead |-> TRUE]

\* The pattern matches the text at position i: the literal is there, no
\* digit and no "-" is before it ((?<![\d\-])), and neither a digit nor a
\* "." and a digit comes after it ((?!(\.?\d))).
MatchAt(p, t, i) ==
    LET after == i + Len(p.literal)
    IN  /\ after - 1 <= Len(t)
        /\ SubSeq(t, i, after - 1) = p.literal
        /\ p.lookbehind => ~(i > 1 /\ t[i - 1] \in Digits \cup {"-"})
        /\ p.lookahead =>
              /\ ~(after <= Len(t) /\ t[after] \in Digits)
              /\ ~(after + 1 <= Len(t) /\ t[after] = "."
                      /\ t[after + 1] \in Digits)

\* re.search(pattern, text): the leftmost position the pattern matches at,
\* 0 for None.
search(p, t) ==
    LET at_ == {i \in 1..Len(t) : MatchAt(p, t, i)}
    IN  IF at_ = {} THEN 0 ELSE CHOOSE i \in at_ : \A j \in at_ : i <= j

RegexInit ==
    /\ SchedulerNotRunning
    /\ ProcessNotStarted
    /\ NothingLoaded
    /\ NothingMaterialized
    /\ NoFiles
    /\ NoSlug
    /\ NoPolling
    /\ NoTree
    /\ NoCache
    /\ NoCredentials
    /\ NoHarness
    /\ NoPool
    /\ NoScope
    /\ number \in -MaxNumber..MaxNumber
    /\ text \in UNION {[1..n -> Characters] : n \in 0..MaxText}
    /\ pattern = NoPattern
    /\ match = -1

\* pattern = regex.decimal(number)
Decimal ==
    /\ pattern = NoPattern
    /\ pattern' = decimal(number)
    /\ UNCHANGED <<number, text, match, nonRegexVars>>

\* match = re.search(pattern, text)
Search ==
    /\ pattern # NoPattern
    /\ match = -1
    /\ match' = search(pattern, text)
    /\ UNCHANGED <<number, text, pattern, nonRegexVars>>

RegexNext ==
    \/ Decimal
    \/ Search

RegexSpec == RegexInit /\ [][RegexNext]_vars

\* The text is the number alone, or the number between two spaces.
Standalone ==
    \/ text = Str(number)
    \/ text = <<" ">> \o Str(number) \o <<" ">>

\* C26: the pattern of decimal(n) is found in an output that is the token n
\* alone; and where it is found, the digits of n are neither preceded by a
\* digit nor followed by a digit or by a decimal point and a digit, so that
\* an output in which every occurrence of n is of that kind has no match.
C26_DecimalMatchesWholeNumberOnly ==
    match # -1 =>
        /\ Standalone => match # 0
        /\ match # 0 =>
              LET digits == IF number < 0 THEN match + 1 ELSE match
                  after == match + Len(Str(number))
              IN  /\ SubSeq(text, match, after - 1) = Str(number)
                  /\ ~(digits > 1 /\ text[digits - 1] \in Digits)
                  /\ ~(after <= Len(text) /\ text[after] \in Digits)
                  /\ ~(after + 1 <= Len(text) /\ text[after] = "."
                          /\ text[after + 1] \in Digits)

\* 12 was searched in an output where it stands between digits or before a
\* decimal point and a digit (112, 121, 12.1), and was not found.
C26_Witness ==
    /\ number = 12
    /\ match = 0
    /\ \E i \in 1..Len(text) :
           /\ i + 1 <= Len(text)
           /\ SubSeq(text, i, i + 1) = Str(12)

\* ================================================== the interaction harness
\* One spawned process and the expectOutput calls chained on its harness.
\* The process writes its output character by character and exits when it
\* likes; the harness consumes the output from the front.

\* The characters a process writes.
OutputCharacters == {"a", "b"}

\* The patterns of the calls: one or two characters; "." stands for any
\* character in a regular expression and for itself in a literal.
Patterns == UNION {[1..n -> OutputCharacters \cup {"."}] : n \in 1..2}

\* The pattern matches the whole of s: character by character for a
\* literal, with "." for any character for a regular expression.
Matches(literal, is_regex, s) ==
    /\ Len(s) = Len(literal)
    /\ \A k \in 1..Len(literal) :
          \/ literal[k] = s[k]
          \/ is_regex /\ literal[k] = "."

\* The call e finds its pattern at position i of the output: in the part
\* that is not consumed yet, and right at its start when an exact literal
\* is required.
FoundAt(e, i) ==
    /\ i > consumed
    /\ i + Len(e.literal) - 1 <= Len(stdout)
    /\ Matches(e.literal, e.is_regex, SubSeq(stdout, i, i + Len(e.literal) - 1))
    /\ e.exact => i = consumed + 1

\* An exact literal is required and the output that is not consumed yet
\* starts with something else.
Differs(e) ==
    /\ e.exact
    /\ \E k \in 1..Len(e.literal) :
          /\ consumed + k <= Len(stdout)
          /\ stdout[consumed + k] # e.literal[k]

\* The output that is not consumed yet.
Unconsumed == SubSeq(stdout, consumed + 1, Len(stdout))

\* Consuming nothing: the position before the match.
through_nothing(i, literal) == i - 1

\* Consuming through the matched text: the position of its last character.
through(i, literal) == i + Len(literal) - 1

HarnessInit ==
    /\ SchedulerNotRunning
    /\ ProcessNotStarted
    /\ NothingLoaded
    /\ NothingMaterialized
    /\ NoFiles
    /\ NoSlug
    /\ NoPolling
    /\ NoTree
    /\ NoCache
    /\ NoCredentials
    /\ NoRegex
    /\ NoPool
    /\ NoScope
    /\ stdout = <<>>
    /\ alive = TRUE
    /\ consumed = 0
    /\ expectation = NoExpectation
    /\ failure = NoFailure

\* The process writes a character.
Write(ch) ==
    /\ alive
    /\ Len(stdout) < MaxOutput
    /\ stdout' = Append(stdout, ch)
    /\ UNCHANGED <<alive, consumed, expectation, failure, nonHarnessVars>>

\* The process exits.
Exits ==
    /\ alive
    /\ alive' = FALSE
    /\ UNCHANGED <<stdout, consumed, expectation, failure, nonHarnessVars>>

\* expectOutput(pattern, isRegex) is called: on a new harness, or chained
\* on the harness the call before it returned.
expectOutput(literal, is_regex, exact) ==
    /\ expectation.at \in {"idle", "returned"}
    /\ exact => ~is_regex
    /\ expectation' = [at |-> "waiting", literal |-> literal,
                       is_regex |-> is_regex, exact |-> exact,
                       start |-> consumed, cause |-> "None"]
    /\ UNCHANGED <<stdout, alive, consumed, failure, nonHarnessVars>>

\* The pattern is found: the call consumes through the first match and
\* returns the harness.
Found ==
    /\ expectation.at = "waiting"
    /\ \E i \in 1..Len(stdout) :
          /\ FoundAt(expectation, i)
          /\ \A j \in 1..(i - 1) : ~FoundAt(expectation, j)
          /\ consumed' = through(i, expectation.literal)
    /\ expectation' = [expectation EXCEPT !.at = "returned", !.cause = "found"]
    /\ UNCHANGED <<stdout, alive, failure, nonHarnessVars>>

\* A differing word comes first where an exact literal is required: the
\* call raises the mismatch failure.
Mismatch ==
    /\ expectation.at = "waiting"
    /\ Differs(expectation)
    /\ expectation' = [expectation EXCEPT !.at = "raised", !.cause = "differs"]
    /\ failure' = [type |-> "mismatch", expected |-> expectation.literal,
                   seen |-> Unconsumed]
    /\ UNCHANGED <<stdout, alive, consumed, nonHarnessVars>>

\* The process has exited, or the timeout of the call elapses, and the
\* pattern is not in the output: the call raises the missing failure.
Exhausted(cause) ==
    /\ expectation.at = "waiting"
    /\ cause = "exit" => ~alive
    /\ \A i \in 1..Len(stdout) : ~FoundAt(expectation, i)
    /\ ~Differs(expectation)
    /\ expectation' = [expectation EXCEPT !.at = "raised", !.cause = cause]
    /\ failure' = [type |-> "missing", expected |-> expectation.literal,
                   seen |-> Unconsumed]
    /\ UNCHANGED <<stdout, alive, consumed, nonHarnessVars>>

HarnessNext ==
    \/ \E ch \in OutputCharacters : Write(ch)
    \/ Exits
    \/ \E literal \in Patterns, is_regex \in BOOLEAN, exact \in BOOLEAN :
          expectOutput(literal, is_regex, exact)
    \/ Found
    \/ Mismatch
    \/ \E cause \in {"exit", "timeout"} : Exhausted(cause)

HarnessSpec == HarnessInit /\ [][HarnessNext]_vars

Tokens == {"", "null", "token_1"}
Users == {"{}", "{username: testuser}"}

\* How YAML writes a scalar: None as the plain word null, a string that a
\* plain scalar would not give back in quotes, any other string plain.
represent_str(value) ==
    IF value = "None"
    THEN [style |-> "plain", text |-> "null"]
    ELSE IF value \in {"", "null", "~"}
    THEN [style |-> "quoted", text |-> value]
    ELSE [style |-> "plain", text |-> value]

\* How YAML reads a scalar: a plain null, ~ or nothing is None, anything
\* else its text.
construct_scalar(scalar) ==
    IF scalar.style = "plain" /\ scalar.text \in {"", "null", "~"}
    THEN "None"
    ELSE scalar.text

\* yaml.dump(data, default_flow_style=False): the entries of the dict,
\* sorted by key.
yaml_dump(data) ==
    LET sorted == SelectSeq(data, LAMBDA item : item[1] = "token")
                      \o SelectSeq(data, LAMBDA item : item[1] = "user")
    IN  [i \in 1..Len(sorted) |-> <<sorted[i][1], represent_str(sorted[i][2])>>]

\* yaml.safe_load(f): the dict of the entries of the document.
yaml_safe_load(document) ==
    [i \in 1..Len(document) |-> <<document[i][1], construct_scalar(document[i][2])>>]

\* _load_credentials(): {} without a file, else yaml.safe_load(f) or {}.
load_credentials ==
    IF ~credentials_yaml.exists
    THEN <<>>
    ELSE IF yaml_safe_load(credentials_yaml.document) = <<>>
    THEN <<>>
    ELSE yaml_safe_load(credentials_yaml.document)

\* _save_credentials(data)
save_credentials(data) ==
    credentials_yaml' = [exists |-> TRUE, document |-> yaml_dump(data)]

\* creds.get(key)
Get(creds, key) == IF HasKey(creds, key) THEN DictGet(creds, key) ELSE "None"

\* creds.pop(key, None)
Pop(creds, key) == SelectSeq(creds, LAMBDA item : item[1] # key)

get_token == Get(load_credentials, "token")

get_user == Get(load_credentials, "user")

\* is_logged_in that asks whether the token is truthy.
is_logged_in_truthy == get_token \notin {"None", ""}

\* return get_token() is not None
is_logged_in == get_token # "None"

CredInit ==
    /\ SchedulerNotRunning
    /\ ProcessNotStarted
    /\ NothingLoaded
    /\ NothingMaterialized
    /\ NoFiles
    /\ NoSlug
    /\ NoPolling
    /\ NoTree
    /\ NoCache
    /\ NoHarness
    /\ NoRegex
    /\ NoPool
    /\ NoScope
    /\ NoCredentials

save_token(token) ==
    /\ Len(history) < MaxStoreCalls
    /\ save_credentials(DictSet(load_credentials, "token", token))
    /\ history' = Append(history, <<"save_token", token>>)
    /\ UNCHANGED nonCredVars

save_user(user) ==
    /\ Len(history) < MaxStoreCalls
    /\ save_credentials(DictSet(load_credentials, "user", user))
    /\ history' = Append(history, <<"save_user", user>>)
    /\ UNCHANGED nonCredVars

clear_token ==
    /\ Len(history) < MaxStoreCalls
    /\ save_credentials(Pop(Pop(load_credentials, "token"), "user"))
    /\ history' = Append(history, <<"clear_token", "None">>)
    /\ UNCHANGED nonCredVars

CredNext ==
    \/ \E token \in Tokens : save_token(token)
    \/ \E user \in Users : save_user(user)
    \/ clear_token

CredSpec == CredInit /\ [][CredNext]_vars

\* The position of the last call of that name in the history, 0 when
\* there is none.
LastCall(name) ==
    LET at_ == {i \in 1..Len(history) : history[i][1] = name}
    IN  IF at_ = {} THEN 0 ELSE CHOOSE i \in at_ : \A j \in at_ : j <= i

\* C29: after any sequence of save_token, save_user and clear_token calls
\* on a store that started without a file, is_logged_in() is true exactly
\* when a save_token was called with no clear_token after it, get_token()
\* is then the token of the last save_token, and when the last call was
\* clear_token, get_token() and get_user() are None.
C29_LoggedInIffTokenSavedAndNotCleared ==
    LET saved == LastCall("save_token")
        cleared == LastCall("clear_token")
    IN  /\ is_logged_in <=> (saved > cleared)
        /\ saved > cleared => get_token = history[saved][2]
        /\ (cleared > 0 /\ cleared = Len(history)) =>
              get_token = "None" /\ get_user = "None"

\* The token "null" and a user were saved, cleared, and the empty token
\* was saved:
\* logged in with the empty token and without a user.
C29_Witness ==
    /\ Len(history) = 4
    /\ history[1] = <<"save_token", "null">>
    /\ history[2][1] = "save_user"
    /\ history[3][1] = "clear_token"
    /\ history[4] = <<"save_token", "">>
    /\ is_logged_in
    /\ get_token = ""
    /\ get_user = "None"

\* ===================================================== the checks cache
\* ChecksManager.get_checks over a cache directory that holds stage
\* directories with .version markers and, per language, a .course_version
\* marker; time passes between the calls.

\* self.cache_dir / course_slug / language / stage_slug
cache_path(parts, language) == <<parts[1], language, parts[2]>>

\* cache_dir / course / stage, the directory without a language component.
language_agnostic(parts) == <<parts[1], parts[2]>>

\* _is_cache_valid(cache_path, version_file)
_is_cache_valid(dir) ==
    IF ~dir.exists \/ dir.version = NoMarker
    THEN FALSE
    ELSE dir.version < CACHE_TTL

\* _is_course_cache_valid(course_cache, version_file)
_is_course_cache_valid(language) ==
    IF course_cache[language] = NoMarker
    THEN FALSE
    ELSE course_cache[language] < CACHE_TTL

\* The age of a marker one step of time later: just written, one second
\* before the TTL, at the TTL.
Older(age) ==
    IF age = NoMarker THEN NoMarker
    ELSE IF age < CACHE_TTL - 1 THEN CACHE_TTL - 1
    ELSE CACHE_TTL

CacheInit ==
    /\ SchedulerNotRunning
    /\ ProcessNotStarted
    /\ NothingLoaded
    /\ NothingMaterialized
    /\ NoFiles
    /\ NoSlug
    /\ NoPolling
    /\ NoTree
    /\ NoHarness
    /\ NoRegex
    /\ NoPool
    /\ NoScope
    /\ NoCredentials
    /\ NoCache

\* The cache is pre-populated: cache_dir/course/stage is made and, with
\* marker, a .version file is written into it.
Populate(parts, marker) ==
    /\ Len(parts) = 2
    /\ stage_cache' =
           [stage_cache EXCEPT ![language_agnostic(parts)] =
               [exists |-> TRUE,
                version |-> IF marker THEN 0 ELSE NoMarker]]
    /\ UNCHANGED <<course_cache, asked, nonCacheVars>>

\* Time passes: every marker gets older.
Elapse ==
    /\ stage_cache' =
           [path \in StagePaths |->
               [stage_cache[path] EXCEPT !.version = Older(@)]]
    /\ course_cache' =
           [language \in Languages |-> Older(course_cache[language])]
    /\ UNCHANGED <<asked, nonCacheVars>>

\* get_checks(slug, language, force_update), with the get_all_checks call
\* it makes: answers is what the API does when asked, an error or the set
\* of stages whose checks it sends.
get_checks(parts, language, force_update, answers) ==
    LET valid == Len(parts) = 2
                     /\ _is_cache_valid(stage_cache[language_agnostic(parts)])
        fresh == Len(parts) = 2
                     /\ _is_cache_valid(stage_cache[cache_path(parts, language)])
        Ended(result, path, api_calls) ==
            [made |-> TRUE, slug |-> parts, language |-> language,
             force_update |-> force_update, valid |-> valid,
             fresh |-> fresh,
             outcome |-> result, path |-> path, api_calls |-> api_calls]
    IN  IF Len(parts) # 2
        THEN /\ asked' = Ended("ValueError", <<>>, 0)
             /\ UNCHANGED <<stage_cache, course_cache, nonCacheVars>>
        ELSE IF ~force_update
                    /\ _is_cache_valid(stage_cache[cache_path(parts, language)])
        THEN /\ asked' = Ended("returned", cache_path(parts, language), 0)
             /\ UNCHANGED <<stage_cache, course_cache, nonCacheVars>>
        ELSE IF ~force_update /\ _is_course_cache_valid(language)
        THEN /\ asked' = IF stage_cache[cache_path(parts, language)].exists
                       THEN Ended("returned", cache_path(parts, language), 0)
                       ELSE Ended("APIError", <<>>, 0)
             /\ UNCHANGED <<stage_cache, course_cache, nonCacheVars>>
        ELSE IF answers.error
        THEN /\ asked' = Ended("APIError", <<>>, 1)
             /\ UNCHANGED <<stage_cache, course_cache, nonCacheVars>>
        ELSE /\ stage_cache' =
                    [path \in StagePaths |->
                        IF \E stage \in answers.checks :
                               path = <<parts[1], language, stage>>
                        THEN [exists |-> TRUE, version |-> 0]
                        ELSE stage_cache[path]]
             /\ course_cache' = [course_cache EXCEPT ![language] = 0]
             /\ asked' = IF stage_cache'[cache_path(parts, language)].exists
                       THEN Ended("returned", cache_path(parts, language), 1)
                       ELSE Ended("APIError", <<>>, 1)
             /\ UNCHANGED nonCacheVars

CacheNext ==
    \/ \E parts \in Slugs, marker \in BOOLEAN : Populate(parts, marker)
    \/ Elapse
    \/ \E parts \in Slugs, language \in Languages, force_update \in BOOLEAN,
          answers \in [error : BOOLEAN, checks : SUBSET Stages] :
           get_checks(parts, language, force_update, answers)

CacheSpec == CacheInit /\ [][CacheNext]_vars

\* C30: a get_checks call with a slug course/stage that returns, returns
\* cache_dir/course/stage whatever the language; and when that directory
\* had a .version marker younger than the TTL and force_update was false,
\* the call returns it without an API call.
C30_ValidAgnosticCacheReturnedWithoutApiCall ==
    (asked.made /\ Len(asked.slug) = 2) =>
        /\ asked.outcome = "returned" =>
              asked.path = language_agnostic(asked.slug)
        /\ (asked.valid /\ ~asked.force_update) =>
              /\ asked.outcome = "returned"
              /\ asked.path = language_agnostic(asked.slug)
              /\ asked.api_calls = 0

\* C31: a get_checks call with a slug course/stage made while the stage
\* directory it looks at was missing, had no .version marker or had one at
\* least CACHE_TTL old, or made with force_update, has called the API.
C31_DownloadsUnlessFreshAndNotForced ==
    (asked.made /\ Len(asked.slug) = 2
         /\ (asked.force_update \/ ~asked.fresh)) =>
        asked.api_calls = 1

\* =============================================== the cache directory tree
\* ChecksManager.clear_cache over the paths that exist under cache_dir.  A
\* path is the sequence of its components below cache_dir; <<>> is
\* cache_dir itself.  Every path but a .course_version file is a directory.

\* The courses that have checks.
Courses == {"cs50", "other"}

\* What a caller passes as slug: nothing, a course, a course and a stage,
\* a string with two slashes; and as language: nothing or a language.
SlugArguments ==
    {[given |-> FALSE, parts |-> <<>>]}
        \cup {[given |-> TRUE, parts |-> <<course>>] : course \in Courses}
        \cup {[given |-> TRUE, parts |-> <<course, stage>>] :
                  course \in Courses, stage \in Stages}
        \cup {[given |-> TRUE, parts |-> <<"cs50", "c", "hello">>]}
ClearLanguages == {"None"} \cup Languages

IsPrefix(p, q) == Len(p) <= Len(q) /\ SubSeq(q, 1, Len(p)) = p

\* item.is_dir()
is_dir(p) == p = <<>> \/ p[Len(p)] # ".course_version"

\* path.iterdir()
iterdir(t, p) == {q \in t : Len(q) = Len(p) + 1 /\ IsPrefix(p, q)}

\* path.mkdir(parents=True, exist_ok=True)
mkdir(t, p) == t \cup {SubSeq(p, 1, n) : n \in 0..Len(p)}

\* shutil.rmtree(path)
rmtree(t, p) == {q \in t : ~IsPrefix(p, q)}

\* The tree clear_cache leaves when it forgets to make cache_dir again.
after_clear_no_mkdir(t, slug, language) ==
    IF ~slug.given THEN rmtree(t, <<>>) ELSE t

\* The tree that clear_cache(slug, language) leaves of the tree t.
after_clear(t, slug, language) ==
    IF ~slug.given
    THEN mkdir(IF <<>> \in t THEN rmtree(t, <<>>) ELSE t, <<>>)
    ELSE IF Len(slug.parts) = 1
    THEN LET cache_path_ == IF language # "None"
                            THEN <<slug.parts[1], language>>
                            ELSE <<slug.parts[1]>>
         IN  IF cache_path_ \in t THEN rmtree(t, cache_path_) ELSE t
    ELSE IF Len(slug.parts) = 2
    THEN IF language # "None"
         THEN LET cache_path_ == <<slug.parts[1], language, slug.parts[2]>>
              IN  IF cache_path_ \in t THEN rmtree(t, cache_path_) ELSE t
         ELSE IF <<slug.parts[1]>> \in t
         THEN {q \in t :
                  ~\E lang_dir \in iterdir(t, <<slug.parts[1]>>) :
                      /\ is_dir(lang_dir)
                      /\ lang_dir \o <<slug.parts[2]>> \in t
                      /\ IsPrefix(lang_dir \o <<slug.parts[2]>>, q)}
         ELSE t
    ELSE t

TreeInit ==
    /\ SchedulerNotRunning
    /\ ProcessNotStarted
    /\ NothingLoaded
    /\ NothingMaterialized
    /\ NoFiles
    /\ NoSlug
    /\ NoPolling
    /\ NoHarness
    /\ NoRegex
    /\ NoPool
    /\ NoScope
    /\ NoCredentials
    /\ NoCache
    /\ NoTree

\* get_all_checks wrote the stages the API answered for a course and a
\* language, and the .course_version marker next to them.
WriteCourse(course, language, answered) ==
    /\ tree' = UNION ({mkdir(tree, <<course, language, stage>>) :
                          stage \in answered}
                      \cup {mkdir(tree, <<course, language,
                                          ".course_version">>)})
    /\ emptied' = NotCleared
    /\ UNCHANGED nonTreeVars

\* A stage directory directly under the course, as the tests make it.
MakeStage(course, stage) ==
    /\ tree' = mkdir(tree, <<course, stage>>)
    /\ emptied' = NotCleared
    /\ UNCHANGED nonTreeVars

\* clear_cache(slug, language): a slug with more than one slash raises
\* ValueError.
clear_cache(slug, language) ==
    /\ tree' = after_clear(tree, slug, language)
    /\ emptied' = [made |-> TRUE, given |-> slug.given, parts |-> slug.parts,
                   language |-> language, before |-> tree,
                   raised |-> IF slug.given /\ Len(slug.parts) > 2
                              THEN "ValueError" ELSE "None"]
    /\ UNCHANGED nonTreeVars

TreeNext ==
    \/ \E course \in Courses, language \in Languages, answered \in SUBSET Stages :
           WriteCourse(course, language, answered)
    \/ \E course \in Courses, stage \in Stages : MakeStage(course, stage)
    \/ \E slug \in SlugArguments, language \in ClearLanguages :
           clear_cache(slug, language)

TreeSpec == TreeInit /\ [][TreeNext]_vars

\* The paths of the tree t that a clear_cache call with these arguments is
\* about: everything below cache_dir without a slug; the course, or its
\* language directory, with a course slug; the stage in the language given,
\* or in every language, with a course/stage slug.
InScope(c, t) ==
    IF ~c.given
    THEN t \ {<<>>}
    ELSE IF Len(c.parts) = 1
    THEN {q \in t : /\ Len(q) >= 1
                    /\ q[1] = c.parts[1]
                    /\ c.language # "None" =>
                           Len(q) >= 2 /\ q[2] = c.language}
    ELSE IF Len(c.parts) = 2
    THEN {q \in t : /\ Len(q) >= 3
                    /\ q[1] = c.parts[1]
                    /\ q[3] = c.parts[2]
                    /\ c.language # "None" => q[2] = c.language}
    ELSE {}

TokenResponses ==
    {"authorization_pending", "slow_down", "expired_token", "access_denied",
     "server_error", "token", "neither", "RequestException"}

\* current_interval += 5
SlowDown == 5

\* What the loop does with a response when every error code but
\* expired_token and access_denied is polled through.
on_response_lenient(response) ==
    IF response \in {"expired_token", "access_denied"} THEN "raise"
    ELSE IF response = "token" THEN "return"
    ELSE "continue"

\* What the loop does with a response.
on_response(response) ==
    IF response \in {"authorization_pending", "slow_down"} THEN "continue"
    ELSE IF response \in {"expired_token", "access_denied", "server_error"}
    THEN "raise"
    ELSE IF response = "token" THEN "return"
    ELSE "continue"

PollInit ==
    /\ SchedulerNotRunning
    /\ ProcessNotStarted
    /\ NothingLoaded
    /\ NothingMaterialized
    /\ NoFiles
    /\ NoSlug
    /\ NoHarness
    /\ NoRegex
    /\ NoPool
    /\ NoScope
    /\ NoCredentials
    /\ NoCache
    /\ NoTree
    /\ NoPolling

\* poll_for_token is called: start_time = time.time().
StartPoll(interval, timeout) ==
    /\ token_poll.at = "not called"
    /\ token_poll' = [at |-> "polling", timeout |-> timeout,
                      current_interval |-> interval, elapsed |-> 0,
                      last |-> "None", code |-> "None"]
    /\ UNCHANGED <<result_poll, nonPollVars>>

\* One turn of the loop: the timeout has not elapsed, the call sleeps
\* current_interval seconds and the request takes seconds more.
PollOnce(response, seconds) ==
    /\ token_poll.at = "polling"
    /\ token_poll.elapsed < token_poll.timeout
    /\ token_poll' =
           [token_poll EXCEPT
               !.elapsed = @ + token_poll.current_interval + seconds,
               !.last = response,
               !.current_interval =
                   IF response = "slow_down" THEN @ + SlowDown ELSE @,
               !.at = IF on_response(response) = "raise" THEN "raised"
                      ELSE IF on_response(response) = "return"
                      THEN "returned"
                      ELSE "polling",
               !.code = IF on_response(response) = "raise"
                        THEN response ELSE "None"]
    /\ UNCHANGED <<result_poll, nonPollVars>>

\* The loop ends because the timeout has elapsed.
PollTimesOut ==
    /\ token_poll.at = "polling"
    /\ token_poll.elapsed >= token_poll.timeout
    /\ token_poll' = [token_poll EXCEPT !.at = "raised", !.code = "timeout"]
    /\ UNCHANGED <<result_poll, nonPollVars>>

PollNext ==
    \/ \E interval \in 1..MaxInterval, timeout \in 0..MaxPollTimeout :
           StartPoll(interval, timeout)
    \/ \E response \in TokenResponses, seconds \in 0..MaxRequestSeconds :
           PollOnce(response, seconds)
    \/ PollTimesOut

\* The process that polls keeps running until the call ends.
PollSpec == PollInit /\ [][PollNext]_vars /\ WF_vars(PollNext)

\* What holds of a poll_for_token call at every moment.
PollIsSound ==
    /\ token_poll.at = "returned" => token_poll.last = "token"
    /\ token_poll.last = "token" => token_poll.at = "returned"
    /\ token_poll.last \in {"expired_token", "access_denied", "server_error"}
           => token_poll.at = "raised" /\ token_poll.code = token_poll.last
    /\ token_poll.last \in {"authorization_pending", "slow_down",
                            "RequestException"}
           => \/ token_poll.at = "polling"
              \/ token_poll.at = "raised" /\ token_poll.code = "timeout"
    /\ (token_poll.at = "raised" /\ token_poll.code = "timeout")
           => token_poll.elapsed >= token_poll.timeout

\* C33: a poll_for_token call returns only after a response with a token,
\* stays in its loop after authorization_pending, slow_down and a network
\* error, has raised DeviceFlowError with the error code right after any
\* other error code, raises with code timeout only when the timeout has
\* elapsed, and always ends.
C33_PollEndsAndOnlyAsItsResponsesSay ==
    /\ []PollIsSound
    /\ <>(token_poll.at \in {"returned", "raised"})

\* A call that polled through slow_down, with the longer interval, and
\* ended with the timeout.
C33_Witness ==
    /\ token_poll.at = "raised"
    /\ token_poll.code = "timeout"
    /\ token_poll.last = "slow_down"
    /\ token_poll.current_interval > SlowDown
    /\ token_poll.elapsed >= token_poll.timeout
    /\ token_poll.timeout = MaxPollTimeout

\* ================================================== the submission poll
\* wait_for_result(submission_id, token, timeout): every turn of its loop
\* looks at the clock, asks for the submission and sleeps.

\* What one request gives: the status of the submission, a result without
\* status, or an APIError.
SubmissionAnswers ==
    {"PENDING", "RUNNING", "SUCCESS", "FAILURE", "ERROR", "TIMEOUT",
     "no status", "APIError"}

\* The first polls sleep one second, the later ones two.
FastPolls == 5

\* A terminal test that takes every status that came without an APIError.
is_terminal_any(answer) == answer # "APIError"

\* status in ["SUCCESS", "FAILURE", "ERROR", "TIMEOUT"]
is_terminal(answer) == answer \in {"SUCCESS", "FAILURE", "ERROR", "TIMEOUT"}

WaitInit ==
    /\ SchedulerNotRunning
    /\ ProcessNotStarted
    /\ NothingLoaded
    /\ NothingMaterialized
    /\ NoFiles
    /\ NoSlug
    /\ NoHarness
    /\ NoRegex
    /\ NoPool
    /\ NoScope
    /\ NoCredentials
    /\ NoCache
    /\ NoTree
    /\ NoPolling

\* wait_for_result is called: start_time = time.time(), poll_count = 0.
StartWait(timeout) ==
    /\ result_poll.at = "not called"
    /\ result_poll' = [at |-> "polling", timeout |-> timeout, elapsed |-> 0,
                       poll_count |-> 0, last |-> "None",
                       returned |-> "None"]
    /\ UNCHANGED <<token_poll, nonPollVars>>

\* The top of the loop finds elapsed > timeout: return None.
WaitTimesOut ==
    /\ result_poll.at = "polling"
    /\ result_poll.elapsed > result_poll.timeout
    /\ result_poll' = [result_poll EXCEPT !.at = "returned",
                                          !.returned = "None"]
    /\ UNCHANGED <<token_poll, nonPollVars>>

\* One turn of the loop: the request takes seconds and gives answer; a
\* terminal status is returned, after anything else the call sleeps.
WaitOnce(answer, seconds) ==
    /\ result_poll.at = "polling"
    /\ result_poll.elapsed <= result_poll.timeout
    /\ result_poll' =
           IF is_terminal(answer)
           THEN [result_poll EXCEPT !.at = "returned", !.last = answer,
                                    !.returned = answer,
                                    !.elapsed = @ + seconds]
           ELSE [result_poll EXCEPT
                    !.last = answer,
                    !.poll_count = @ + 1,
                    !.elapsed = @ + seconds
                                  + (IF result_poll.poll_count + 1 <= FastPolls
                                     THEN 1 ELSE 2)]
    /\ UNCHANGED <<token_poll, nonPollVars>>

WaitNext ==
    \/ \E timeout \in 0..MaxPollTimeout : StartWait(timeout)
    \/ WaitTimesOut
    \/ \E answer \in SubmissionAnswers, seconds \in 0..MaxRequestSeconds :
           WaitOnce(answer, seconds)

WaitSpec == WaitInit /\ [][WaitNext]_vars

\* C34: a wait_for_result call that returned a result returned one whose
\* status is SUCCESS, FAILURE, ERROR or TIMEOUT; one that returned None
\* did so after more than timeout seconds; and after an APIError or a
\* status that is not terminal the call is still polling, unless the
\* timeout has since ended it.
C34_ReturnsTerminalResultOrNoneAfterTimeout ==
    /\ (result_poll.at = "returned" /\ result_poll.returned # "None") =>
           /\ result_poll.returned
                  \in {"SUCCESS", "FAILURE", "ERROR", "TIMEOUT"}
           /\ result_poll.returned = result_poll.last
    /\ (result_poll.at = "returned" /\ result_poll.returned = "None") =>
           result_poll.elapsed > result_poll.timeout
    /\ result_poll.last \in {"APIError", "PENDING", "RUNNING", "no status"}
           => \/ result_poll.at = "polling"
              \/ /\ result_poll.at = "returned"
                 /\ result_poll.returned = "None"
                 /\ result_poll.elapsed > result_poll.timeout

\* A call that went on polling past the fast polls and then returned a
\* terminal result before its timeout.
C34_Witness ==
    /\ result_poll.at = "returned"
    /\ result_poll.returned = "FAILURE"
    /\ result_poll.poll_count > FastPolls
    /\ result_poll.elapsed <= result_poll.timeout

\* ====================================================== the slug parser
\* parse_slug(slug) over strings written as sequences of characters.

SlugCharacters == {"a", "b", "/"}
SlugStrings == UNION {[1..n -> SlugCharacters] : n \in 0..MaxSlug}

\* The positions of "/" in s.
Slashes(s) == {i \in 1..Len(s) : s[i] = "/"}

RECURSIVE split(_)
\* s.split("/")
split(s) ==
    IF Slashes(s) = {}
    THEN <<s>>
    ELSE LET i == CHOOSE i \in Slashes(s) : \A j \in Slashes(s) : i <= j
         IN  <<SubSeq(s, 1, i - 1)>> \o split(SubSeq(s, i + 1, Len(s)))

RECURSIVE join(_)
\* "/".join(parts)
join(parts) ==
    IF Len(parts) = 1
    THEN parts[1]
    ELSE parts[1] \o <<"/">> \o join(Tail(parts))

\* parse_slug that takes the last part of a longer slug as the stage.
parse_slug_last(s) ==
    LET parts == split(s)
    IN  IF Len(parts) = 1
        THEN [done |-> TRUE, has_course |-> FALSE, course |-> <<>>,
              stage |-> parts[1]]
        ELSE [done |-> TRUE, has_course |-> TRUE, course |-> parts[1],
              stage |-> parts[Len(parts)]]

\* parse_slug(slug): has_course is false where the course is None.
parse_slug(s) ==
    LET parts == split(s)
    IN  IF Len(parts) = 2
        THEN [done |-> TRUE, has_course |-> TRUE, course |-> parts[1],
              stage |-> parts[2]]
        ELSE IF Len(parts) = 1
        THEN [done |-> TRUE, has_course |-> FALSE, course |-> <<>>,
              stage |-> parts[1]]
        ELSE [done |-> TRUE, has_course |-> TRUE, course |-> parts[1],
              stage |-> join(Tail(parts))]

SlugInit ==
    /\ SchedulerNotRunning
    /\ ProcessNotStarted
    /\ NothingLoaded
    /\ NothingMaterialized
    /\ NoFiles
    /\ NoHarness
    /\ NoRegex
    /\ NoPool
    /\ NoScope
    /\ NoCredentials
    /\ NoCache
    /\ NoTree
    /\ NoPolling
    /\ slug_text \in SlugStrings
    /\ parsed = NotParsed

ParseSlug ==
    /\ ~parsed.done
    /\ parsed' = parse_slug(slug_text)
    /\ UNCHANGED <<slug_text, nonSlugVars>>

SlugNext == ParseSlug

SlugSpec == SlugInit /\ [][SlugNext]_vars

Present == {"a.c", "b.c"}
PatternTags == {"require", "include", "exclude"}
PatternValues ==
    {<<"a.c">>, <<".", "a.c">>, <<"*">>, <<"gone.c">>, <<"lost.c">>,
     <<"..", "a.c">>}
PatternLists ==
    UNION {[1..n -> [tag : PatternTags, value : PatternValues]] :
              n \in 0..MaxPatterns}

\* Path(value): pathlib drops the "." parts of a path and keeps the rest.
Path(value) ==
    LET Kept(part) == part # "."
    IN  SelectSeq(value, Kept)

\* Path(file).exists() for a path of at most one directory level.
exists(file) == file = <<>> \/ (Len(file) = 1 /\ file[1] \in Present)

\* _is_relative_to(Path(value).expanduser().resolve(), Path.cwd()): no
\* prefix of the path climbs above the directory.
_is_relative_to(value) ==
    \A k \in 1..Len(value) :
        Cardinality({i \in 1..k : value[i] = ".."})
            <= Cardinality({i \in 1..k : value[i] \notin {".", ".."}})

\* _glob(value): the regular files the pattern matches, each spelt with
\* the directory part of the pattern; a result with a part that starts
\* with "." after Path dropped the "." parts is skipped as hidden.
_glob(value) ==
    LET directory == SubSeq(value, 1, Len(value) - 1)
        name == value[Len(value)]
    IN  IF \A i \in 1..Len(directory) : directory[i] = "."
        THEN {directory \o <<n>> : n \in {m \in Present : name \in {"*", m}}}
        ELSE {}

RECURSIVE files_from(_, _)
\* The loop of files over the patterns that are left.
files_from(left, so_far) ==
    IF left = <<>>
    THEN so_far
    ELSE LET p == Head(left)
             file == Path(p.value)
             new_files == _glob(p.value)
         IN  IF ~_is_relative_to(p.value)
             THEN [so_far EXCEPT !.error = "Error"]
             ELSE IF p.tag = "require"
             THEN IF ~exists(file)
                  THEN files_from(Tail(left),
                         [so_far EXCEPT !.files = Append(@, file)])
                  ELSE files_from(Tail(left),
                         [so_far EXCEPT !.excluded = @ \ {file},
                                        !.included = @ \cup {file}])
             ELSE IF p.tag = "include"
             THEN files_from(Tail(left),
                    [so_far EXCEPT !.excluded = @ \ new_files,
                                   !.included = @ \cup new_files])
             ELSE files_from(Tail(left),
                    [so_far EXCEPT !.included = @ \ new_files,
                                   !.excluded = @ \cup new_files])

\* files(patterns): everything that is not hidden is included to begin
\* with; Error stops the loop, MissingFilesError is raised after it.
files(given) ==
    LET last == files_from(given,
                    [at |-> "returned", error |-> "none",
                     included |-> _glob(<<"*">>), excluded |-> {},
                     files |-> <<>>])
    IN  IF last.error = "Error"
        THEN [NotSelected EXCEPT !.at = "raised", !.error = "Error"]
        ELSE IF last.files # <<>>
        THEN [NotSelected EXCEPT !.at = "raised",
                                 !.error = "MissingFilesError",
                                 !.files = last.files]
        ELSE last

FilesInit ==
    /\ SchedulerNotRunning
    /\ ProcessNotStarted
    /\ NothingLoaded
    /\ NothingMaterialized
    /\ NoHarness
    /\ NoRegex
    /\ NoPool
    /\ NoScope
    /\ NoCredentials
    /\ NoCache
    /\ NoTree
    /\ NoPolling
    /\ NoSlug
    /\ file_patterns \in PatternLists
    /\ selected = NotSelected

CallFiles ==
    /\ selected.at = "not called"
    /\ selected' = files(file_patterns)
    /\ UNCHANGED <<file_patterns, nonFilesVars>>

FilesNext == CallFiles

FilesSpec == FilesInit /\ [][FilesNext]_vars

\* The pattern selects the file of that name: a require pattern names it,
\* an include or exclude pattern matches it.
Selects(p, name) ==
    IF p.tag = "require"
    THEN Path(p.value) = <<name>>
    ELSE \E path \in _glob(p.value) : Path(path) = <<name>>

\* The file of that name is in the set under one spelling or another.
Holds(paths, name) == \E path \in paths : Path(path) = <<name>>

\* C40: a call of files whose patterns all stay in the directory raises
\* MissingFilesError with every missing required file when one is missing;
\* else it returns two disjoint sets in which no file is on both sides,
\* every file is on the side of the last pattern that selects it, and a
\* file no pattern selects is included.
C40_LastSelectingPatternDecides ==
    LET given == file_patterns
        required == {i \in 1..Len(given) : given[i].tag = "require"}
        gone == {Path(given[i].value) :
                    i \in {j \in required : ~exists(Path(given[j].value))}}
        Side(name) ==
            LET hits == {i \in 1..Len(given) : Selects(given[i], name)}
                final == CHOOSE i \in hits : \A j \in hits : j <= i
            IN  IF hits # {} /\ given[final].tag = "exclude"
                THEN "excluded"
                ELSE "included"
    IN  (/\ selected.at # "not called"
         /\ \A i \in 1..Len(given) : _is_relative_to(given[i].value))
            => IF gone # {}
               THEN /\ selected.at = "raised"
                    /\ selected.error = "MissingFilesError"
                    /\ {selected.files[i] : i \in 1..Len(selected.files)}
                         = gone
               ELSE /\ selected.at = "returned"
                    /\ selected.included \cap selected.excluded = {}
                    /\ \A name \in Present :
                         /\ Holds(selected.included, name)
                                <=> Side(name) = "included"
                         /\ Holds(selected.excluded, name)
                                <=> Side(name) = "excluded"

====
